---- MODULE Spec2Model ----
(***************************************************************************)
(* USB Type-C Port Manager test device (drivers/usb/typec/tcpmtest.c).     *)
(*                                                                         *)
(* The driver simulates a PD port partner.  `data` is struct               *)
(* tcpmtest_data; the TCPM interface functions and the sysfs store are the *)
(* producers, tcpmtest_event_work and tcpmtest_tmo_work run on one         *)
(* single-threaded workqueue.  Facade calls and event_work hold            *)
(* data->lock, so each is one atomic action; tmo_work takes no lock and is *)
(* split at its accesses of the request bitfield word.                     *)
(***************************************************************************)
EXTENDS Integers, Sequences, FiniteSets, TLC

(* ------------------------------ bounds --------------------------------- *)

\* pd_transmit is offered by the environment only while rx_id is below this
MaxRxId == 2

\* the same, in the specification that drives the message ID past its wrap
MaxRxIdWrap == 9

\* transmit calls the history of the completion count keeps apart
MaxPending == 2

\* sessions the history of staged messages keeps apart
MaxSessions == 2

\* length of the delivery history kept by the tracking specifications
MaxRcvd == 4

(* ----------------------- linux/usb/pd.h encodings ---------------------- *)

Bit(n) == 2 ^ n

\* (x >> sh) & mask, mask = 2^width - 1
Field(x, sh, width) == (x \div (2 ^ sh)) % (2 ^ width)

\* x & BIT(n) != 0
TestBit(x, n) == Field(x, n, 1) = 1

PDO_FIXED_DUAL_ROLE == Bit(29)
PDO_FIXED_SUSPEND == Bit(28)
PDO_FIXED_EXTPOWER == Bit(27)
PDO_FIXED_USB_COMM == Bit(26)
PDO_FIXED_DATA_SWAP == Bit(25)
RDO_USB_COMM == Bit(25)

\* PDO_TYPE(PDO_TYPE_FIXED) | flags | PDO_FIXED_VOLT(mv) | PDO_FIXED_CURR(ma)
PDO_FIXED(mv, ma, flags) ==
    flags + ((mv \div 50) % 1024) * Bit(10) + ((ma \div 10) % 1024)

\* RDO_OBJ(idx) | flags | PDO_FIXED_OP_CURR(op_ma) | PDO_FIXED_MAX_CURR(max_ma)
RDO_FIXED(idx, op_ma, max_ma, flags) ==
    (idx % 8) * Bit(28) + flags
        + ((op_ma \div 10) % 1024) * Bit(10) + ((max_ma \div 10) % 1024)

\* the 16-bit header, kept as its fields; id and cnt are masked to 3 bits
PD_HEADER(type, pwr, drole, id, cnt) ==
    [type |-> type, pwr |-> pwr, drole |-> drole, id |-> id % 8, cnt |-> cnt % 8]

(* --------------- message decoders of the tcpmtest_log family ----------- *)

\* tcpmtest_log_capability_pdo: the fields it prints for a fixed PDO
pdo_decode(pdo) ==
    [type |-> Field(pdo, 30, 2),
     drp |-> TestBit(pdo, 29),
     ss |-> TestBit(pdo, 28),
     ep |-> TestBit(pdo, 27),
     cc |-> TestBit(pdo, 26),
     drd |-> TestBit(pdo, 25),
     volt |-> Field(pdo, 10, 10) * 50,
     curr |-> Field(pdo, 0, 10) * 10]

\* tcpmtest_log_request_pdo: the fields it prints for a fixed/variable RDO
rdo_decode(rdo) ==
    [index |-> Field(rdo, 28, 3),
     gb |-> TestBit(rdo, 27),
     cm |-> TestBit(rdo, 26),
     cc |-> TestBit(rdo, 25),
     ns |-> TestBit(rdo, 24),
     curr1 |-> Field(rdo, 10, 10) * 10,
     curr2 |-> Field(rdo, 0, 10) * 10]

(* ------------------------------ alphabets ------------------------------ *)

SimStates ==
    {"SSTATE_NONE", "SSTATE_SNK_START", "SSTATE_SNK_RUN", "SSTATE_SRC_START",
     "SSTATE_SRC_VBUS", "SSTATE_SRC_RX_SOURCE_CAP",
     "SSTATE_SRC_WAIT_FOR_REQUEST", "SSTATE_SRC_SEND_REQUEST",
     "SSTATE_SRC_SEND_PS_RDY", "SSTATE_SRC_RUN", "SSTATE_TO_NONE"}

TestModes == {"TESTMODE_NONE", "TESTMODE_SNK", "TESTMODE_SRC", "TESTMODE_RESET"}

\* a message the port manager hands to pd_transmit: header (type, cnt) and
\* the first data object
TxMsg(type, cnt, obj) ==
    [header |-> PD_HEADER(type, "TYPEC_SINK", "TYPEC_DEVICE", 0, cnt),
     payload |-> [i \in 0..6 |-> IF i = 0 THEN obj ELSE 0]]

\* control messages offered by the environment, one per branch of the
\* classifiers' switch statements
TxCtrl ==
    {TxMsg(t, 0, 0) :
        t \in {"PD_CTRL_GOOD_CRC", "PD_CTRL_ACCEPT", "PD_CTRL_REJECT",
               "PD_CTRL_GET_SOURCE_CAP", "PD_CTRL_GET_SINK_CAP",
               "PD_CTRL_DR_SWAP", "PD_CTRL_SOFT_RESET"}}

\* data messages offered by the environment
TxData ==
    {TxMsg("PD_DATA_SOURCE_CAP", 1, PDO_FIXED(5000, 1500, PDO_FIXED_USB_COMM)),
     TxMsg("PD_DATA_REQUEST", 1, RDO_FIXED(1, 1500, 1500, RDO_USB_COMM)),
     TxMsg("PD_DATA_SINK_CAP", 1, PDO_FIXED(5000, 500, PDO_FIXED_USB_COMM))}

TxMsgs == TxCtrl \cup TxData

\* (type, message) pairs offered to pd_transmit: every message as SOP, and
\* the two kinds of non-SOP transmit
TxArgs ==
    {<<"TCPC_TX_SOP", m>> : m \in TxMsgs}
        \cup {<<"TCPC_TX_SOP_PRIME", TxMsg("PD_CTRL_GOOD_CRC", 0, 0)>>,
              <<"TCPC_TX_HARD_RESET", TxMsg("PD_CTRL_GOOD_CRC", 0, 0)>>}

NoRequest ==
    [mode_set |-> FALSE, msg_rx |-> FALSE, msg_tx |-> FALSE, vbus_chng |-> FALSE]

\* devm_kzalloc: an all-zero pd_message
ZeroMsg == [header |-> PD_HEADER("0", "TYPEC_SINK", "TYPEC_DEVICE", 0, 0),
            payload |-> [i \in 0..6 |-> 0]]

(* ------------------------------- state --------------------------------- *)

VARIABLES
    data,      \* struct tcpmtest_data, with the workqueue and the step's logs
    pc,        \* what the workqueue's single worker is executing
    w,         \* request word loaded by the worker for a read-modify-write
    lastcall,  \* history: the most recent producer call, whether it latched
    rcvd,      \* history: the messages handed to tcpm_pd_receive
    ids        \* history: the header IDs synthesized since the last reset

vars == <<data, pc, w, lastcall, rcvd, ids>>

(* ---------------------- workqueue (data->wq) --------------------------- *)

\* queue_work(data->wq, &data->event_work): no effect while already pending
queue_work(d) ==
    IF \E i \in 1..Len(d.wq) : d.wq[i] = "event_work"
    THEN d
    ELSE [d EXCEPT !.wq = Append(@, "event_work")]

\* mod_delayed_work(data->wq, &data->tmo_work, ...): a pending expiry is
\* replaced, whether the timer is still running or the work is already queued
mod_delayed_work(d) ==
    [d EXCEPT !.wq = SelectSeq(@, LAMBDA x : x # "tmo_work"), !.timer = TRUE]

\* a notification to the port manager (tcpm_cc_change, tcpm_pd_receive, ...)
notify(d, fn) == [d EXCEPT !.port = Append(@, fn)]

\* history of the running step: a write of rx_id or of request.vbus_chng,
\* with the header ID produced and the counter value it was produced from
mark(d, op, id, ctr) ==
    [d EXCEPT !.trace = Append(@, [op |-> op, id |-> id, ctr |-> ctr])]

(* --------------------------- driver internals -------------------------- *)

\* tcpmtest_hard_reset without the clearing of the request word
tcpmtest_hard_reset_keeps_flags(d, from_peer) ==
    LET d1 == mark([d EXCEPT !.rx_id = 0], "reset", 0, 0)
    IN  IF from_peer THEN notify(d1, "tcpm_pd_hard_reset") ELSE d1

\* tcpmtest_hard_reset without data->rx_id = 0
tcpmtest_hard_reset_keeps_id(d, from_peer) ==
    LET d1 == mark([d EXCEPT !.request = NoRequest], "reset", 0, 0)
    IN  IF from_peer THEN notify(d1, "tcpm_pd_hard_reset") ELSE d1

tcpmtest_hard_reset(d, from_peer) ==
    LET d1 == mark([d EXCEPT !.request = NoRequest, !.rx_id = 0], "reset", 0, 0)
    IN  IF from_peer THEN notify(d1, "tcpm_pd_hard_reset") ELSE d1

\* the tail of the tcpmtest_mk_* functions with the counter advanced by two
stage_skip(d, type, pwr, drole, cnt, words) ==
    LET header == PD_HEADER(type, pwr, drole, d.rx_id, cnt)
    IN  mark([d EXCEPT
                 !.rx_msg = [header |-> header,
                             payload |-> [i \in 0..6 |->
                                             IF i < Len(words) THEN words[i + 1]
                                             ELSE d.rx_msg.payload[i]]],
                 !.rx_id = @ + 2,
                 !.request.msg_rx = TRUE],
             "stage", header.id, d.rx_id)

\* common tail of the tcpmtest_mk_* functions: header with data->rx_id++,
\* payload words, request.msg_rx = 1
stage(d, type, pwr, drole, cnt, words) ==
    LET header == PD_HEADER(type, pwr, drole, d.rx_id, cnt)
    IN  mark([d EXCEPT
                 !.rx_msg = [header |-> header,
                             payload |-> [i \in 0..6 |->
                                             IF i < Len(words) THEN words[i + 1]
                                             ELSE d.rx_msg.payload[i]]],
                 !.rx_id = @ + 1,
                 !.request.msg_rx = TRUE],
             "stage", header.id, d.rx_id)

\* tcpmtest_mk_snk_request asking for 500 mA
tcpmtest_mk_snk_request_500(d) ==
    stage(d, "PD_DATA_REQUEST", "TYPEC_SINK", "TYPEC_DEVICE", 1,
          <<RDO_FIXED(1, 500, 1500, RDO_USB_COMM)>>)

tcpmtest_mk_snk_request(d) ==
    stage(d, "PD_DATA_REQUEST", "TYPEC_SINK", "TYPEC_DEVICE", 1,
          <<RDO_FIXED(1, 1500, 1500, RDO_USB_COMM)>>)

\* tcpmtest_mk_snk_sink_cap advertising 1500 mA
tcpmtest_mk_snk_sink_cap_1500(d) ==
    stage(d, "PD_DATA_SINK_CAP", "TYPEC_SINK", "TYPEC_DEVICE", 1,
          <<PDO_FIXED(5000, 1500, PDO_FIXED_USB_COMM)>>)

tcpmtest_mk_snk_sink_cap(d) ==
    stage(d, "PD_DATA_SINK_CAP", "TYPEC_SINK", "TYPEC_DEVICE", 1,
          <<PDO_FIXED(5000, 2000, PDO_FIXED_USB_COMM)>>)

tcpmtest_mk_src_data_source_cap(d) ==
    stage(d, "PD_DATA_SOURCE_CAP", "TYPEC_SOURCE", "TYPEC_HOST", 1,
          <<PDO_FIXED(5000, 3000,
                      PDO_FIXED_DUAL_ROLE + PDO_FIXED_EXTPOWER
                          + PDO_FIXED_USB_COMM + PDO_FIXED_DATA_SWAP)>>)

tcpmtest_mk_src_accept(d) ==
    stage(d, "PD_CTRL_ACCEPT", "TYPEC_SOURCE", "TYPEC_HOST", 0, <<>>)

tcpmtest_mk_src_ps_rdy(d) ==
    stage(d, "PD_CTRL_PS_RDY", "TYPEC_SOURCE", "TYPEC_HOST", 0, <<>>)

(* ----------------- structured VDM responses (sink role) ---------------- *)

USB_SID_PD == 65280
USB_SID_DISPLAYPORT == 65281

\* a u32 from its two 16-bit halves, held as the 32-bit integer with the
\* same bit pattern (negative when bit 31 is set); Field and TestBit read it
\* as the shifts and masks of the source do
Word(hi, lo) == (IF hi >= Bit(15) THEN hi - Bit(16) ELSE hi) * Bit(16) + lo

\* svid << 16 | VDO_SVDM_TYPE | ver << 13 | opos << 8 | cmdt << 6 | cmd
VDO_STR(svid, ver, opos, cmdt, cmd) ==
    Word(svid % Bit(16),
         Bit(15) + ver * Bit(13) + opos * Bit(8) + cmdt * Bit(6) + cmd)

VDO_IDH(usbh, usbd, ptype, is_modal, vid) ==
    Word(usbh * Bit(15) + usbd * Bit(14) + (ptype % 8) * Bit(11)
             + is_modal * Bit(10),
         vid % Bit(16))

VDO_PRODUCT(pid, bcd) == Word(pid % Bit(16), bcd % Bit(16))

VDO_AMA(hw, fw, tx1d, tx2d, rx1d, rx2d, vcpwr, vcr, vbr, usbss) ==
    (hw % 8) * Bit(28) + (fw % 16) * Bit(24) + tx1d * Bit(11) + tx2d * Bit(10)
        + rx1d * Bit(9) + rx2d * Bit(8) + (vcpwr % 8) * Bit(5) + vcr * Bit(4)
        + vbr * Bit(3) + (usbss % 8)

VDO_SVID(svid0, svid1) == Word(svid0 % Bit(16), svid1 % Bit(16))

VDO_MODE_DP(snkp, srcp, usb, gdr, sign, sdir) ==
    (snkp % 256) * Bit(16) + (srcp % 256) * Bit(8) + (usb % 2) * Bit(7)
        + (gdr % 2) * Bit(6) + (sign % 16) * Bit(2) + (sdir % 4)

\* CMDT_RSP_ACK = 1, CMD_DISCOVER_IDENT = 1, IDH_PTYPE_AMA = 5,
\* AMA_VCONN_PWR_1W5 = 1, AMA_USBSS_BBONLY = 3
tcpmtest_mk_snk_disc_ident_resp_vdm(d) ==
    stage(d, "PD_DATA_VENDOR_DEF", "TYPEC_SINK", "TYPEC_DEVICE", 5,
          <<VDO_STR(USB_SID_PD, 0, 0, 1, 1),
            VDO_IDH(0, 1, 5, 1, 8457),
            0,
            VDO_PRODUCT(257, 1),
            VDO_AMA(0, 0, 0, 0, 0, 0, 1, 1, 1, 3)>>)

\* CMD_DISCOVER_SVID = 2
tcpmtest_mk_snk_disc_svid_resp_vdm(d) ==
    stage(d, "PD_DATA_VENDOR_DEF", "TYPEC_SINK", "TYPEC_DEVICE", 2,
          <<VDO_STR(USB_SID_PD, 0, 0, 1, 2), VDO_SVID(USB_SID_DISPLAYPORT, 0)>>)

\* CMD_DISCOVER_MODES = 3, MODE_DP_PIN_C = 4, MODE_DP_V13 = 1, MODE_DP_SNK = 1
tcpmtest_mk_snk_disc_modes_resp_vdm(d, svid) ==
    IF svid # USB_SID_DISPLAYPORT
    THEN d
    ELSE stage(d, "PD_DATA_VENDOR_DEF", "TYPEC_SINK", "TYPEC_DEVICE", 2,
               <<VDO_STR(USB_SID_DISPLAYPORT, 0, 0, 1, 3),
                 VDO_MODE_DP(0, 4, 0, 1, 1, 1)>>)

\* tcpmtest_process_tx_vdm_for_snk without the tests of the command type
tcpmtest_process_tx_vdm_for_snk_any_cmdt(d) ==
    LET vdo_hdr == d.tx_msg.payload[0]
        cmd == Field(vdo_hdr, 0, 5)
    IN  IF ~TestBit(vdo_hdr, 15) THEN d
        ELSE IF cmd = 1 THEN tcpmtest_mk_snk_disc_ident_resp_vdm(d)
        ELSE IF cmd = 2 THEN tcpmtest_mk_snk_disc_svid_resp_vdm(d)
        ELSE IF cmd = 3
             THEN tcpmtest_mk_snk_disc_modes_resp_vdm(d, Field(vdo_hdr, 16, 16))
        ELSE d

\* PD_VDO_CMDT = (hdr >> 6) & 3 with CMDT_INIT = 0, PD_VDO_CMD = hdr & 0x1f,
\* PD_VDO_VID = hdr >> 16
tcpmtest_process_tx_vdm_for_snk(d) ==
    LET vdo_hdr == d.tx_msg.payload[0]
        cmdt == Field(vdo_hdr, 6, 2)
        cmd == Field(vdo_hdr, 0, 5)
    IN  IF ~TestBit(vdo_hdr, 15) THEN d
        ELSE IF cmdt # 0 THEN d
        ELSE IF cmd = 1 THEN tcpmtest_mk_snk_disc_ident_resp_vdm(d)
        ELSE IF cmd = 2 THEN tcpmtest_mk_snk_disc_svid_resp_vdm(d)
        ELSE IF cmd = 3
             THEN tcpmtest_mk_snk_disc_modes_resp_vdm(d, Field(vdo_hdr, 16, 16))
        ELSE d

tcpmtest_process_tx_vdm_for_src(d) == d

(* -------------------------- inbound classifier ------------------------- *)

\* the sink's control switch with a SoftReset that also drops the staged
\* message
snk_ctrl_msg_soft_reset_drops(d, type) ==
    CASE type \in {"PD_CTRL_GOOD_CRC", "PD_CTRL_GOTO_MIN", "PD_CTRL_ACCEPT"} -> d
      [] type = "PD_CTRL_REJECT" -> tcpmtest_hard_reset(d, TRUE)
      [] type \in {"PD_CTRL_PING", "PD_CTRL_PS_RDY"} -> d
      [] type = "PD_CTRL_GET_SOURCE_CAP" -> tcpmtest_hard_reset(d, TRUE)
      [] type = "PD_CTRL_GET_SINK_CAP" -> tcpmtest_mk_snk_sink_cap(d)
      [] type \in {"PD_CTRL_DR_SWAP", "PD_CTRL_PR_SWAP", "PD_CTRL_VCONN_SWAP"} ->
             tcpmtest_hard_reset(d, TRUE)
      [] type = "PD_CTRL_WAIT" -> d
      [] type = "PD_CTRL_SOFT_RESET" -> tcpmtest_hard_reset(d, FALSE)
      [] OTHER -> d

\* the switch over control messages of tcpmtest_process_tx_msg_for_snk
snk_ctrl_msg(d, type) ==
    CASE type \in {"PD_CTRL_GOOD_CRC", "PD_CTRL_GOTO_MIN", "PD_CTRL_ACCEPT"} -> d
      [] type = "PD_CTRL_REJECT" -> tcpmtest_hard_reset(d, TRUE)
      [] type \in {"PD_CTRL_PING", "PD_CTRL_PS_RDY"} -> d
      [] type = "PD_CTRL_GET_SOURCE_CAP" -> tcpmtest_hard_reset(d, TRUE)
      [] type = "PD_CTRL_GET_SINK_CAP" -> tcpmtest_mk_snk_sink_cap(d)
      [] type \in {"PD_CTRL_DR_SWAP", "PD_CTRL_PR_SWAP", "PD_CTRL_VCONN_SWAP"} ->
             tcpmtest_hard_reset(d, TRUE)
      [] type = "PD_CTRL_WAIT" -> d
      [] type = "PD_CTRL_SOFT_RESET" -> mark([d EXCEPT !.rx_id = 0], "reset", 0, 0)
      [] OTHER -> d

\* the switch over data messages of tcpmtest_process_tx_msg_for_snk
snk_data_msg(d, type) ==
    CASE type = "PD_DATA_SOURCE_CAP" -> tcpmtest_mk_snk_request(d)
      [] type = "PD_DATA_REQUEST" -> tcpmtest_hard_reset(d, TRUE)
      [] type = "PD_DATA_BIST" -> d
      [] type = "PD_DATA_SINK_CAP" -> tcpmtest_hard_reset(d, TRUE)
      [] type = "PD_DATA_VENDOR_DEF" -> tcpmtest_process_tx_vdm_for_snk(d)
      [] OTHER -> d

tcpmtest_process_tx_msg_for_snk(d) ==
    LET header == d.tx_msg.header
    IN  IF d.tx_type = "TCPC_TX_HARD_RESET" THEN tcpmtest_hard_reset(d, FALSE)
        ELSE IF d.tx_type # "TCPC_TX_SOP" THEN d
        ELSE IF header.cnt = 0 THEN snk_ctrl_msg(d, header.type)
        ELSE snk_data_msg(d, header.type)

\* the source's control switch with PD_CTRL_PS_RDY moved to the cases that
\* reset the peer
src_ctrl_msg_ps_rdy_resets(d, type) ==
    CASE type \in {"PD_CTRL_GOOD_CRC", "PD_CTRL_GOTO_MIN"} -> d
      [] type \in {"PD_CTRL_ACCEPT", "PD_CTRL_REJECT", "PD_CTRL_PS_RDY"} ->
             tcpmtest_hard_reset(d, TRUE)
      [] type = "PD_CTRL_PING" -> d
      [] type = "PD_CTRL_GET_SOURCE_CAP" -> tcpmtest_mk_src_data_source_cap(d)
      [] type = "PD_CTRL_GET_SINK_CAP" -> tcpmtest_hard_reset(d, TRUE)
      [] type \in {"PD_CTRL_DR_SWAP", "PD_CTRL_PR_SWAP", "PD_CTRL_VCONN_SWAP"} ->
             tcpmtest_hard_reset(d, TRUE)
      [] type = "PD_CTRL_WAIT" -> d
      [] type = "PD_CTRL_SOFT_RESET" -> mark([d EXCEPT !.rx_id = 0], "reset", 0, 0)
      [] OTHER -> d

\* the switch over control messages of tcpmtest_process_tx_msg_for_src
src_ctrl_msg(d, type) ==
    CASE type \in {"PD_CTRL_GOOD_CRC", "PD_CTRL_GOTO_MIN"} -> d
      [] type \in {"PD_CTRL_ACCEPT", "PD_CTRL_REJECT"} -> tcpmtest_hard_reset(d, TRUE)
      [] type \in {"PD_CTRL_PING", "PD_CTRL_PS_RDY"} -> d
      [] type = "PD_CTRL_GET_SOURCE_CAP" -> tcpmtest_mk_src_data_source_cap(d)
      [] type = "PD_CTRL_GET_SINK_CAP" -> tcpmtest_hard_reset(d, TRUE)
      [] type \in {"PD_CTRL_DR_SWAP", "PD_CTRL_PR_SWAP", "PD_CTRL_VCONN_SWAP"} ->
             tcpmtest_hard_reset(d, TRUE)
      [] type = "PD_CTRL_WAIT" -> d
      [] type = "PD_CTRL_SOFT_RESET" -> mark([d EXCEPT !.rx_id = 0], "reset", 0, 0)
      [] OTHER -> d

\* the switch over data messages of tcpmtest_process_tx_msg_for_src with
\* PD_DATA_SINK_CAP moved to the hard-reset case of PD_DATA_SOURCE_CAP
src_data_msg_strict(d, type) ==
    CASE type \in {"PD_DATA_SOURCE_CAP", "PD_DATA_SINK_CAP"} ->
             tcpmtest_hard_reset(d, TRUE)
      [] type = "PD_DATA_REQUEST" ->
             IF d.state = "SSTATE_SRC_WAIT_FOR_REQUEST"
             THEN [d EXCEPT !.state = "SSTATE_SRC_SEND_REQUEST"]
             ELSE d
      [] type = "PD_DATA_BIST" -> d
      [] type = "PD_DATA_VENDOR_DEF" -> tcpmtest_process_tx_vdm_for_src(d)
      [] OTHER -> d

\* the switch over data messages of tcpmtest_process_tx_msg_for_src without
\* the test of data->state under PD_DATA_REQUEST
src_data_msg_any_state(d, type) ==
    CASE type = "PD_DATA_SOURCE_CAP" -> tcpmtest_hard_reset(d, TRUE)
      [] type = "PD_DATA_REQUEST" ->
             [d EXCEPT !.state = "SSTATE_SRC_SEND_REQUEST"]
      [] type \in {"PD_DATA_BIST", "PD_DATA_SINK_CAP"} -> d
      [] type = "PD_DATA_VENDOR_DEF" -> tcpmtest_process_tx_vdm_for_src(d)
      [] OTHER -> d

\* the switch over data messages of tcpmtest_process_tx_msg_for_src
src_data_msg(d, type) ==
    CASE type = "PD_DATA_SOURCE_CAP" -> tcpmtest_hard_reset(d, TRUE)
      [] type = "PD_DATA_REQUEST" ->
             IF d.state = "SSTATE_SRC_WAIT_FOR_REQUEST"
             THEN [d EXCEPT !.state = "SSTATE_SRC_SEND_REQUEST"]
             ELSE d
      [] type \in {"PD_DATA_BIST", "PD_DATA_SINK_CAP"} -> d
      [] type = "PD_DATA_VENDOR_DEF" -> tcpmtest_process_tx_vdm_for_src(d)
      [] OTHER -> d

\* tcpmtest_process_tx_msg_for_src with the HardReset transmit reported to
\* the port manager as a hard reset from the peer
tcpmtest_process_tx_msg_for_src_from_peer(d) ==
    LET header == d.tx_msg.header
    IN  IF d.tx_type = "TCPC_TX_HARD_RESET" THEN tcpmtest_hard_reset(d, TRUE)
        ELSE IF d.tx_type # "TCPC_TX_SOP" THEN d
        ELSE IF header.cnt = 0 THEN src_ctrl_msg(d, header.type)
        ELSE src_data_msg(d, header.type)

tcpmtest_process_tx_msg_for_src(d) ==
    LET header == d.tx_msg.header
    IN  IF d.tx_type = "TCPC_TX_HARD_RESET" THEN tcpmtest_hard_reset(d, FALSE)
        ELSE IF d.tx_type # "TCPC_TX_SOP" THEN d
        ELSE IF header.cnt = 0 THEN src_ctrl_msg(d, header.type)
        ELSE src_data_msg(d, header.type)

(* ------------------------ simulation state machine --------------------- *)

\* case SSTATE_SNK_START without data->vbus_present = false
sm_snk_start_keeps_vbus(d) ==
    notify([d EXCEPT !.cc1_status = "TYPEC_CC_RD",
                     !.cc2_status = "TYPEC_CC_RA",
                     !.state = "SSTATE_SNK_RUN"],
           "tcpm_cc_change")

\* case SSTATE_SNK_START
sm_snk_start(d) ==
    notify([d EXCEPT !.vbus_present = FALSE,
                     !.cc1_status = "TYPEC_CC_RD",
                     !.cc2_status = "TYPEC_CC_RA",
                     !.state = "SSTATE_SNK_RUN"],
           "tcpm_cc_change")

\* case SSTATE_SRC_START, with the mod_delayed_work that its delay = 5 causes
sm_src_start(d) ==
    mod_delayed_work(
        notify([d EXCEPT !.cc1_status = "TYPEC_CC_OPEN",
                         !.cc2_status = "TYPEC_CC_RP_3_0",
                         !.state = "SSTATE_SRC_VBUS",
                         !.delay = 5],
               "tcpm_cc_change"))

\* case SSTATE_SRC_VBUS without the test of timeout
sm_src_vbus_no_wait(d, timeout) ==
    mark([d EXCEPT !.vbus_present = TRUE,
                   !.request.vbus_chng = TRUE,
                   !.state = "SSTATE_SRC_RX_SOURCE_CAP"],
         "vbus_chng", 0, 0)

\* case SSTATE_SRC_VBUS
sm_src_vbus(d, timeout) ==
    IF timeout
    THEN mark([d EXCEPT !.vbus_present = TRUE,
                        !.request.vbus_chng = TRUE,
                        !.state = "SSTATE_SRC_RX_SOURCE_CAP"],
              "vbus_chng", 0, 0)
    ELSE d

\* case SSTATE_SRC_RX_SOURCE_CAP
sm_src_rx_source_cap(d) ==
    IF d.pd_rx_enable
    THEN [tcpmtest_mk_src_data_source_cap(d) EXCEPT
              !.state = "SSTATE_SRC_WAIT_FOR_REQUEST"]
    ELSE d

\* case SSTATE_SRC_SEND_REQUEST without state = SSTATE_SRC_SEND_PS_RDY
sm_src_send_request_stays(d) == tcpmtest_mk_src_accept(d)

\* case SSTATE_SRC_SEND_REQUEST
sm_src_send_request(d) ==
    [tcpmtest_mk_src_accept(d) EXCEPT !.state = "SSTATE_SRC_SEND_PS_RDY"]

\* case SSTATE_SRC_SEND_PS_RDY without the test of request.msg_rx
sm_src_send_ps_rdy_early(d) ==
    [tcpmtest_mk_src_ps_rdy(d) EXCEPT !.state = "SSTATE_SRC_RUN"]

\* case SSTATE_SRC_SEND_PS_RDY
sm_src_send_ps_rdy(d) ==
    IF ~d.request.msg_rx
    THEN [tcpmtest_mk_src_ps_rdy(d) EXCEPT !.state = "SSTATE_SRC_RUN"]
    ELSE d

\* case SSTATE_TO_NONE with the test of sysfs.mode_req inverted
sm_to_none_inverted(d) ==
    LET d1 == tcpmtest_hard_reset(
                  [d EXCEPT !.vbus_present = FALSE,
                            !.cc1_status = "TYPEC_CC_OPEN",
                            !.cc2_status = "TYPEC_CC_OPEN"], FALSE)
        d2 == IF d1.sysfs.mode_req # "TESTMODE_RESET"
              THEN notify(d1, "tcpm_tcpc_reset")
              ELSE notify(d1, "tcpm_cc_change")
    IN  [d2 EXCEPT !.sysfs.mode = "TESTMODE_NONE", !.state = "SSTATE_NONE"]

\* case SSTATE_TO_NONE without the call of tcpmtest_hard_reset
sm_to_none_no_reset(d) ==
    LET d1 == [d EXCEPT !.vbus_present = FALSE,
                        !.cc1_status = "TYPEC_CC_OPEN",
                        !.cc2_status = "TYPEC_CC_OPEN"]
        d2 == IF d1.sysfs.mode_req = "TESTMODE_RESET"
              THEN notify(d1, "tcpm_tcpc_reset")
              ELSE notify(d1, "tcpm_cc_change")
    IN  [d2 EXCEPT !.sysfs.mode = "TESTMODE_NONE", !.state = "SSTATE_NONE"]

\* case SSTATE_TO_NONE
sm_to_none(d) ==
    LET d1 == tcpmtest_hard_reset(
                  [d EXCEPT !.vbus_present = FALSE,
                            !.cc1_status = "TYPEC_CC_OPEN",
                            !.cc2_status = "TYPEC_CC_OPEN"], FALSE)
        d2 == IF d1.sysfs.mode_req = "TESTMODE_RESET"
              THEN notify(d1, "tcpm_tcpc_reset")
              ELSE notify(d1, "tcpm_cc_change")
    IN  [d2 EXCEPT !.sysfs.mode = "TESTMODE_NONE", !.state = "SSTATE_NONE"]

tcpmtest_state_machine(d, timeout) ==
    CASE d.state = "SSTATE_SNK_START" -> sm_snk_start(d)
      [] d.state = "SSTATE_SRC_START" -> sm_src_start(d)
      [] d.state = "SSTATE_SRC_VBUS" -> sm_src_vbus(d, timeout)
      [] d.state = "SSTATE_SRC_RX_SOURCE_CAP" -> sm_src_rx_source_cap(d)
      [] d.state = "SSTATE_SRC_SEND_REQUEST" -> sm_src_send_request(d)
      [] d.state = "SSTATE_SRC_SEND_PS_RDY" -> sm_src_send_ps_rdy(d)
      [] d.state = "SSTATE_TO_NONE" -> sm_to_none(d)
      [] OTHER -> d

(* ---------------------------- event dispatcher ------------------------- *)
\* event_mode_set without the tests of sysfs.mode (lines 1164 and 1171): a
\* session is armed over a running one
event_mode_set_overlap(d) ==
    IF ~d.request.mode_set THEN d
    ELSE LET c == [d EXCEPT !.request.mode_set = FALSE]
         IN  CASE c.sysfs.mode_req \in {"TESTMODE_NONE", "TESTMODE_RESET"} ->
                    IF c.sysfs.mode # "TESTMODE_NONE"
                    THEN [c EXCEPT !.state = "SSTATE_TO_NONE"]
                    ELSE c
               [] c.sysfs.mode_req = "TESTMODE_SNK" ->
                    [c EXCEPT !.sysfs.mode = "TESTMODE_SNK",
                              !.state = "SSTATE_SNK_START"]
               [] c.sysfs.mode_req = "TESTMODE_SRC" ->
                    [c EXCEPT !.sysfs.mode = "TESTMODE_SRC",
                              !.state = "SSTATE_SRC_START"]

\* event_mode_set without the test of sysfs.mode at line 1159: none and
\* reset go through SSTATE_TO_NONE from Idle as well
event_mode_set_from_idle(d) ==
    IF ~d.request.mode_set THEN d
    ELSE LET c == [d EXCEPT !.request.mode_set = FALSE]
         IN  CASE c.sysfs.mode_req \in {"TESTMODE_NONE", "TESTMODE_RESET"} ->
                    [c EXCEPT !.state = "SSTATE_TO_NONE"]
               [] c.sysfs.mode_req = "TESTMODE_SNK" ->
                    IF c.sysfs.mode = "TESTMODE_NONE"
                    THEN [c EXCEPT !.sysfs.mode = "TESTMODE_SNK",
                                   !.state = "SSTATE_SNK_START"]
                    ELSE c
               [] c.sysfs.mode_req = "TESTMODE_SRC" ->
                    IF c.sysfs.mode = "TESTMODE_NONE"
                    THEN [c EXCEPT !.sysfs.mode = "TESTMODE_SRC",
                                   !.state = "SSTATE_SRC_START"]
                    ELSE c

\* event_mode_set that keeps an ignored snk or src request latched
event_mode_set_deferred(d) ==
    IF ~d.request.mode_set THEN d
    ELSE LET c == [d EXCEPT !.request.mode_set = FALSE]
         IN  CASE c.sysfs.mode_req \in {"TESTMODE_NONE", "TESTMODE_RESET"} ->
                    IF c.sysfs.mode # "TESTMODE_NONE"
                    THEN [c EXCEPT !.state = "SSTATE_TO_NONE"]
                    ELSE c
               [] c.sysfs.mode_req = "TESTMODE_SNK" ->
                    IF c.sysfs.mode = "TESTMODE_NONE"
                    THEN [c EXCEPT !.sysfs.mode = "TESTMODE_SNK",
                                   !.state = "SSTATE_SNK_START"]
                    ELSE d
               [] c.sysfs.mode_req = "TESTMODE_SRC" ->
                    IF c.sysfs.mode = "TESTMODE_NONE"
                    THEN [c EXCEPT !.sysfs.mode = "TESTMODE_SRC",
                                   !.state = "SSTATE_SRC_START"]
                    ELSE d

\* the mode-change part of tcpmtest_event_work
event_mode_set(d) ==
    IF ~d.request.mode_set THEN d
    ELSE LET c == [d EXCEPT !.request.mode_set = FALSE]
         IN  CASE c.sysfs.mode_req \in {"TESTMODE_NONE", "TESTMODE_RESET"} ->
                    IF c.sysfs.mode # "TESTMODE_NONE"
                    THEN [c EXCEPT !.state = "SSTATE_TO_NONE"]
                    ELSE c
               [] c.sysfs.mode_req = "TESTMODE_SNK" ->
                    IF c.sysfs.mode = "TESTMODE_NONE"
                    THEN [c EXCEPT !.sysfs.mode = "TESTMODE_SNK",
                                   !.state = "SSTATE_SNK_START"]
                    ELSE c
               [] c.sysfs.mode_req = "TESTMODE_SRC" ->
                    IF c.sysfs.mode = "TESTMODE_NONE"
                    THEN [c EXCEPT !.sysfs.mode = "TESTMODE_SRC",
                                   !.state = "SSTATE_SRC_START"]
                    ELSE c

\* the VBUS-change part of tcpmtest_event_work
event_vbus_chng(d) ==
    IF d.request.vbus_chng
    THEN notify([d EXCEPT !.request.vbus_chng = FALSE], "tcpm_vbus_change")
    ELSE d

\* the transmitted-message part reporting TCPC_TX_DISCARDED outside a session
event_msg_tx_discarded(d) ==
    IF ~d.request.msg_tx THEN d
    ELSE LET c == [d EXCEPT !.request.msg_tx = FALSE]
         IN  IF c.sysfs.mode = "TESTMODE_SNK"
             THEN notify(tcpmtest_process_tx_msg_for_snk(c),
                         "tcpm_pd_transmit_complete(TCPC_TX_SUCCESS)")
             ELSE IF c.sysfs.mode = "TESTMODE_SRC"
             THEN notify(tcpmtest_process_tx_msg_for_src(c),
                         "tcpm_pd_transmit_complete(TCPC_TX_SUCCESS)")
             ELSE notify(c, "tcpm_pd_transmit_complete(TCPC_TX_DISCARDED)")

\* the transmitted-message part of tcpmtest_event_work
event_msg_tx(d) ==
    IF ~d.request.msg_tx THEN d
    ELSE LET c == [d EXCEPT !.request.msg_tx = FALSE]
         IN  IF c.sysfs.mode = "TESTMODE_SNK"
             THEN notify(tcpmtest_process_tx_msg_for_snk(c),
                         "tcpm_pd_transmit_complete(TCPC_TX_SUCCESS)")
             ELSE IF c.sysfs.mode = "TESTMODE_SRC"
             THEN notify(tcpmtest_process_tx_msg_for_src(c),
                         "tcpm_pd_transmit_complete(TCPC_TX_SUCCESS)")
             ELSE notify(c, "tcpm_pd_transmit_complete(TCPC_TX_FAILED)")

\* the tail of tcpmtest_event_work: one state-machine step, the re-queue
\* decided by the (void) result of tcpmtest_state_machine, hence by either
\* value, and the response timer for a staged message
event_tail(d, requeue) ==
    LET d4 == tcpmtest_state_machine(d, FALSE)
        d5 == IF requeue THEN queue_work(d4) ELSE d4
    IN  IF d5.request.msg_rx THEN mod_delayed_work(d5) ELSE d5

\* tcpmtest_event_work handling the transmitted message before the VBUS
\* change
tcpmtest_event_work_msg_first(d, requeue) ==
    event_tail(event_vbus_chng(event_msg_tx(event_mode_set(d))), requeue)

tcpmtest_event_work(d, requeue) ==
    event_tail(event_msg_tx(event_vbus_chng(event_mode_set(d))), requeue)

(* ------------------------------ initial state -------------------------- *)

NoCall ==
    [fn |-> "none", a |-> FALSE, b |-> FALSE, latched |-> FALSE,
     prev |-> FALSE, engine |-> FALSE, dirty |-> FALSE]

\* tcpmtest_probe: devm_kzalloc zeroes the structure, the workqueue is empty
Init ==
    /\ data = [cc1_status |-> "TYPEC_CC_OPEN",
               cc2_status |-> "TYPEC_CC_OPEN",
               vbus_present |-> FALSE,
               pd_rx_enable |-> FALSE,
               delay |-> 0,
               request |-> NoRequest,
               state |-> "SSTATE_NONE",
               tx_type |-> "TCPC_TX_SOP",
               tx_msg |-> ZeroMsg,
               rx_msg |-> ZeroMsg,
               rx_id |-> 0,
               sysfs |-> [mode |-> "TESTMODE_NONE", mode_req |-> "TESTMODE_NONE"],
               wq |-> <<>>,
               timer |-> FALSE,
               port |-> <<>>,
               trace |-> <<>>]
    /\ pc = "idle"
    /\ w = NoRequest
    /\ lastcall = NoCall
    /\ rcvd = <<>>
    /\ ids = <<>>

\* every action starts with an empty log of notifications to the port
\* manager and an empty history of the step
Fresh == [data EXCEPT !.port = <<>>, !.trace = <<>>]

(* ------------------- producers: sysfs and TCPM interface --------------- *)

\* tcpmtest_sysfs_store with one of "none", "reset", "snk", "src"
tcpmtest_sysfs_store(m) ==
    /\ data' = queue_work([Fresh EXCEPT !.sysfs.mode_req = m,
                                        !.request.mode_set = TRUE])
    /\ UNCHANGED <<pc, w>>

\* C strings as sequences of characters; reading at or past the end gives
\* the terminating NUL
NUL == "NUL"

chr(s, i) == IF i <= Len(s) THEN s[i] ELSE NUL

\* sysfs_streq: the strings are equal, or differ by one trailing newline
sysfs_streq(s1, s2) ==
    LET i == CHOOSE k \in 1..(Len(s1) + 1) :
                 /\ chr(s1, k) = NUL \/ chr(s1, k) # chr(s2, k)
                 /\ \A j \in 1..(k - 1) :
                        chr(s1, j) # NUL /\ chr(s1, j) = chr(s2, j)
    IN  \/ chr(s1, i) = chr(s2, i)
        \/ chr(s1, i) = NUL /\ chr(s2, i) = "\n" /\ chr(s2, i + 1) = NUL
        \/ chr(s1, i) = "\n" /\ chr(s1, i + 1) = NUL /\ chr(s2, i) = NUL

EINVAL == 22

\* the chain of sysfs_streq tests of tcpmtest_sysfs_store: the requested
\* mode, or "EINVAL"
mode_of(buf) ==
    IF sysfs_streq(<<"n", "o", "n", "e">>, buf) THEN "TESTMODE_NONE"
    ELSE IF sysfs_streq(<<"r", "e", "s", "e", "t">>, buf) THEN "TESTMODE_RESET"
    ELSE IF sysfs_streq(<<"s", "n", "k">>, buf) THEN "TESTMODE_SNK"
    ELSE IF sysfs_streq(<<"s", "r", "c">>, buf) THEN "TESTMODE_SRC"
    ELSE "EINVAL"

\* the value tcpmtest_sysfs_store returns for a write of count bytes
sysfs_store_ret(buf, count) ==
    IF count # 0 /\ mode_of(buf) # "EINVAL" THEN count ELSE -EINVAL

\* tcpmtest_sysfs_store that latches the request before it rejects the value
sysfs_store_write_latch_first(buf, count) ==
    /\ data' = IF count # 0 /\ mode_of(buf) # "EINVAL"
               THEN queue_work([Fresh EXCEPT !.sysfs.mode_req = mode_of(buf),
                                             !.request.mode_set = TRUE])
               ELSE queue_work([Fresh EXCEPT !.request.mode_set = TRUE])
    /\ UNCHANGED <<pc, w>>

\* tcpmtest_sysfs_store with the bytes written to the mode attribute
sysfs_store_write(buf, count) ==
    IF count # 0 /\ mode_of(buf) # "EINVAL"
    THEN tcpmtest_sysfs_store(mode_of(buf))
    ELSE data' = Fresh /\ UNCHANGED <<pc, w>>

tcpmtest_set_pd_rx(enable) ==
    /\ data' = IF data.pd_rx_enable # enable
               THEN queue_work([Fresh EXCEPT !.pd_rx_enable = enable])
               ELSE Fresh
    /\ UNCHANGED <<pc, w>>

\* tcpmtest_set_vbus taking VBUS-present from sink alone
tcpmtest_set_vbus_sink_only(source, sink) ==
    LET vbus_present == sink
    IN  /\ data' = IF vbus_present # data.vbus_present
                   THEN queue_work(
                            mark([Fresh EXCEPT !.request.vbus_chng = TRUE,
                                               !.vbus_present = vbus_present],
                                 "vbus_chng", 0, 0))
                   ELSE Fresh
        /\ UNCHANGED <<pc, w>>

\* tcpmtest_set_vbus without the comparison with data->vbus_present
tcpmtest_set_vbus_always(source, sink) ==
    LET vbus_present == source \/ sink
    IN  /\ data' = queue_work(
                       mark([Fresh EXCEPT !.request.vbus_chng = TRUE,
                                          !.vbus_present = vbus_present],
                            "vbus_chng", 0, 0))
        /\ UNCHANGED <<pc, w>>

tcpmtest_set_vbus(source, sink) ==
    LET vbus_present == source \/ sink
    IN  /\ data' = IF vbus_present # data.vbus_present
                   THEN queue_work(
                            mark([Fresh EXCEPT !.request.vbus_chng = TRUE,
                                               !.vbus_present = vbus_present],
                                 "vbus_chng", 0, 0))
                   ELSE Fresh
        /\ UNCHANGED <<pc, w>>

\* tcpmtest_pd_transmit with a message (msg # NULL)
tcpmtest_pd_transmit(type, msg) ==
    /\ data' = queue_work([Fresh EXCEPT !.tx_type = type,
                                        !.tx_msg = msg,
                                        !.request.msg_tx = TRUE])
    /\ UNCHANGED <<pc, w>>

\* tcpmtest_pd_transmit without a message (msg = NULL): tcpmtest_log_msg is
\* called first, outside the lock, and loads msg->header before it looks at
\* the type.  The load through the null pointer is undefined: the call
\* faults there and never reaches the lock, or the unused load is dropped
\* and the call goes on, leaving tx_msg as it was.
tcpmtest_pd_transmit_absent(type, fault) ==
    /\ data' = IF fault
               THEN Fresh
               ELSE queue_work([Fresh EXCEPT !.tx_type = type,
                                             !.request.msg_tx = TRUE])
    /\ UNCHANGED <<pc, w>>

(* ------------------- the workqueue's single worker --------------------- *)

\* a worker that takes the next work item while one is still executing
WorkerPick_while_busy ==
    /\ data.wq # <<>>
    /\ pc' = Head(data.wq)
    /\ data' = [Fresh EXCEPT !.wq = Tail(@)]
    /\ UNCHANGED w

\* the worker takes the next pending work item off the queue
WorkerPick ==
    /\ pc = "idle"
    /\ data.wq # <<>>
    /\ pc' = Head(data.wq)
    /\ data' = [Fresh EXCEPT !.wq = Tail(@)]
    /\ UNCHANGED w

\* an expiry that queues tmo_work and leaves the timer armed
TimerExpire_keeps_armed ==
    /\ data.timer
    /\ data' = [Fresh EXCEPT !.wq = Append(@, "tmo_work")]
    /\ UNCHANGED <<pc, w>>

\* the delayed work's timer expires and queues tmo_work
TimerExpire ==
    /\ data.timer
    /\ data' = [Fresh EXCEPT !.timer = FALSE, !.wq = Append(@, "tmo_work")]
    /\ UNCHANGED <<pc, w>>

\* tcpmtest_event_work, one pass under data->lock
EventWork ==
    /\ pc = "event_work"
    /\ \E requeue \in BOOLEAN : data' = tcpmtest_event_work(Fresh, requeue)
    /\ pc' = "idle"
    /\ UNCHANGED w

\* tcpmtest_tmo_work, no lock held: test of request.msg_rx, and the load of
\* the request word for clearing the bit
TmoTest ==
    /\ pc = "tmo_work"
    /\ IF data.request.msg_rx
       THEN w' = data.request /\ pc' = "tmo_deliver"
       ELSE w' = w /\ pc' = "tmo_sm_load"
    /\ data' = Fresh

\* the hand-over without the clearing of request.msg_rx
TmoDeliver_keeps_flag ==
    /\ pc = "tmo_deliver"
    /\ data' = notify([Fresh EXCEPT !.request = w], "tcpm_pd_receive")
    /\ pc' = "tmo_sm_load"
    /\ w' = NoRequest

\* the store of the word with msg_rx cleared, and tcpm_pd_receive
TmoDeliver ==
    /\ pc = "tmo_deliver"
    /\ data' = notify([Fresh EXCEPT !.request = [w EXCEPT !.msg_rx = FALSE]],
                      "tcpm_pd_receive")
    /\ pc' = "tmo_sm_load"
    /\ w' = NoRequest

\* data->delay = 0 and entry to the state machine: the request word as the
\* state machine first sees it
TmoSmLoad ==
    /\ pc = "tmo_sm_load"
    /\ data' = [Fresh EXCEPT !.delay = 0]
    /\ w' = data.request
    /\ pc' = "tmo_sm"

\* tcpmtest_state_machine(data, true); a bitfield it sets is stored together
\* with the rest of the word it loaded
TmoSm ==
    /\ pc = "tmo_sm"
    /\ LET r == tcpmtest_state_machine([Fresh EXCEPT !.request = w], TRUE)
       IN  data' = IF r.request = w
                   THEN [r EXCEPT !.request = data.request]
                   ELSE r
    /\ pc' = "idle"
    /\ w' = NoRequest

(* ----------------------------- specification --------------------------- *)

\* messages that make the simulated peer synthesize a reply
TxAsk ==
    {arg \in TxArgs :
        /\ arg[1] = "TCPC_TX_SOP"
        /\ arg[2].header.type \in {"PD_CTRL_GET_SOURCE_CAP", "PD_CTRL_GET_SINK_CAP",
                                   "PD_DATA_SOURCE_CAP", "PD_DATA_VENDOR_DEF"}}

\* the operator writes one of the modes M
EnvMode(M) == \E m \in M : tcpmtest_sysfs_store(m)

\* the port manager enables or disables PD receive
EnvPdRx(B) == \E enable \in B : tcpmtest_set_pd_rx(enable)

\* the port manager switches VBUS
EnvVbus == \E source, sink \in BOOLEAN : tcpmtest_set_vbus(source, sink)

\* the port manager transmits one of S; a reply is solicited only while the
\* counter is below the bound
EnvTx(S, bound) ==
    \E arg \in S :
        /\ arg \in TxAsk => data.rx_id < bound
        /\ tcpmtest_pd_transmit(arg[1], arg[2])

\* a step that leaves the histories alone
Quiet == UNCHANGED <<lastcall, rcvd, ids>>

\* every producer, every message
Next ==
    \/ EnvMode(TestModes) /\ Quiet
    \/ EnvPdRx(BOOLEAN) /\ Quiet
    \/ EnvVbus /\ Quiet
    \/ EnvTx(TxArgs, MaxRxId) /\ Quiet
    \/ WorkerPick /\ Quiet
    \/ TimerExpire /\ Quiet
    \/ EventWork /\ Quiet
    \/ TmoTest /\ Quiet
    \/ TmoDeliver /\ Quiet
    \/ TmoSmLoad /\ Quiet
    \/ TmoSm /\ Quiet

Spec == Init /\ [][Next]_vars

(* ------------- the engine under narrower environments ------------------ *)

Request1 == TxMsg("PD_DATA_REQUEST", 1, RDO_FIXED(1, 1500, 1500, RDO_USB_COMM))

\* well-formed requests for object position 1
Requests ==
    {Request1,
     TxMsg("PD_DATA_REQUEST", 1, RDO_FIXED(1, 500, 1500, 0)),
     TxMsg("PD_DATA_REQUEST", 1, RDO_FIXED(1, 3000, 3000, RDO_USB_COMM))}

\* mode changes in every state: all four modes, PD receive, VBUS, and the
\* two transmits that move the source state machine or reset the peer
NextMode ==
    \/ EnvMode(TestModes) /\ Quiet
    \/ EnvPdRx(BOOLEAN) /\ Quiet
    \/ EnvVbus /\ Quiet
    \/ EnvTx({<<"TCPC_TX_SOP", Request1>>,
              <<"TCPC_TX_HARD_RESET", TxMsg("PD_CTRL_GOOD_CRC", 0, 0)>>},
             MaxRxId) /\ Quiet
    \/ WorkerPick /\ Quiet
    \/ TimerExpire /\ Quiet
    \/ EventWork /\ Quiet
    \/ TmoTest /\ Quiet
    \/ TmoDeliver /\ Quiet
    \/ TmoSmLoad /\ Quiet
    \/ TmoSm /\ Quiet

SpecMode == Init /\ [][NextMode]_vars

\* every message in every session state: sessions start and end, PD receive
\* is enabled
NextMsg ==
    \/ EnvMode({"TESTMODE_NONE", "TESTMODE_SNK", "TESTMODE_SRC"}) /\ Quiet
    \/ EnvPdRx({TRUE}) /\ Quiet
    \/ EnvTx(TxArgs, MaxRxId) /\ Quiet
    \/ WorkerPick /\ Quiet
    \/ TimerExpire /\ Quiet
    \/ EventWork /\ Quiet
    \/ TmoTest /\ Quiet
    \/ TmoDeliver /\ Quiet
    \/ TmoSmLoad /\ Quiet
    \/ TmoSm /\ Quiet

SpecMsg == Init /\ [][NextMsg]_vars

\* history: the messages handed to tcpm_pd_receive, in order
TrackRcvd ==
    /\ rcvd' = IF /\ \E i \in 1..Len(data'.port) :
                        data'.port[i] = "tcpm_pd_receive"
                  /\ Len(rcvd) < MaxRcvd
               THEN Append(rcvd, data'.rx_msg)
               ELSE rcvd
    /\ UNCHANGED <<lastcall, ids>>

\* the operator starts one source session
SrcArm ==
    /\ data.sysfs.mode = "TESTMODE_NONE"
    /\ ~data.request.mode_set
    /\ tcpmtest_sysfs_store("TESTMODE_SRC")

\* the port manager enables PD receive, once
SrcPdRx ==
    /\ ~data.pd_rx_enable
    /\ tcpmtest_set_pd_rx(TRUE)

\* the port manager answers the delivered SourceCapabilities with one Request
SrcRequest ==
    /\ data.state = "SSTATE_SRC_WAIT_FOR_REQUEST"
    /\ Len(rcvd) = 1
    /\ ~data.request.msg_tx
    /\ \E msg \in Requests : tcpmtest_pd_transmit("TCPC_TX_SOP", msg)

\* a source session in which the port manager enables PD receive and
\* transmits nothing but the Request
NextSrc ==
    \/ SrcArm /\ TrackRcvd
    \/ SrcPdRx /\ TrackRcvd
    \/ SrcRequest /\ TrackRcvd
    \/ WorkerPick /\ TrackRcvd
    \/ TimerExpire /\ TrackRcvd
    \/ EventWork /\ TrackRcvd
    \/ TmoTest /\ TrackRcvd
    \/ TmoDeliver /\ TrackRcvd
    \/ TmoSmLoad /\ TrackRcvd
    \/ TmoSm /\ TrackRcvd

SpecSrc == Init /\ [][NextSrc]_vars

\* history: the header IDs the running step synthesized are appended, a
\* write of 0 to the counter empties the history
RECURSIVE ReplayIds(_, _)
ReplayIds(h, tr) ==
    IF tr = <<>> THEN h
    ELSE ReplayIds(CASE Head(tr).op = "reset" -> <<>>
                     [] Head(tr).op = "stage" -> Append(h, Head(tr).id)
                     [] OTHER -> h,
                   Tail(tr))

TrackIds ==
    /\ ids' = ReplayIds(ids, data'.trace)
    /\ UNCHANGED <<lastcall, rcvd>>

\* sink and source sessions in which the port manager asks for capabilities
\* until the message ID has wrapped, and soft-resets
NextId ==
    \/ EnvMode({"TESTMODE_NONE", "TESTMODE_SNK", "TESTMODE_SRC"}) /\ TrackIds
    \/ EnvPdRx({TRUE}) /\ TrackIds
    \/ EnvTx({<<"TCPC_TX_SOP", TxMsg("PD_CTRL_GET_SINK_CAP", 0, 0)>>,
              <<"TCPC_TX_SOP", TxMsg("PD_CTRL_GET_SOURCE_CAP", 0, 0)>>,
              <<"TCPC_TX_SOP", TxMsg("PD_CTRL_SOFT_RESET", 0, 0)>>},
             MaxRxIdWrap) /\ TrackIds
    \/ WorkerPick /\ TrackIds
    \/ TimerExpire /\ TrackIds
    \/ EventWork /\ TrackIds
    \/ TmoTest /\ TrackIds
    \/ TmoDeliver /\ TrackIds
    \/ TmoSmLoad /\ TrackIds
    \/ TmoSm /\ TrackIds

SpecId == Init /\ [][NextId]_vars

\* history of set_vbus calls: the call, whether it latched, whether the
\* previous call was the same call and latched, and whether the engine wrote
\* a different vbus_present between the two
VbusCall ==
    /\ \E source, sink \in BOOLEAN :
        /\ tcpmtest_set_vbus(source, sink)
        /\ lastcall' =
               [fn |-> "set_vbus", a |-> source, b |-> sink,
                latched |-> \E i \in 1..Len(data'.trace) :
                                data'.trace[i].op = "vbus_chng",
                prev |-> /\ lastcall.fn = "set_vbus"
                         /\ lastcall.a = source
                         /\ lastcall.b = sink
                         /\ lastcall.latched,
                engine |-> lastcall.dirty,
                dirty |-> FALSE]
    /\ UNCHANGED <<rcvd, ids>>

\* any other producer call ends a run of set_vbus calls
OtherCall ==
    /\ lastcall' = [NoCall EXCEPT !.fn = "other"]
    /\ UNCHANGED <<rcvd, ids>>

\* a worker step; the history notes a write that changes vbus_present
EngineStep ==
    /\ lastcall' = [lastcall EXCEPT
                       !.dirty = @ \/ data'.vbus_present # data.vbus_present]
    /\ UNCHANGED <<rcvd, ids>>

NextVbus ==
    \/ VbusCall
    \/ EnvMode(TestModes) /\ OtherCall
    \/ EnvPdRx({TRUE}) /\ OtherCall
    \/ WorkerPick /\ EngineStep
    \/ TimerExpire /\ EngineStep
    \/ EventWork /\ EngineStep
    \/ TmoTest /\ EngineStep
    \/ TmoDeliver /\ EngineStep
    \/ TmoSmLoad /\ EngineStep
    \/ TmoSm /\ EngineStep

SpecVbus == Init /\ [][NextVbus]_vars

\* transmit types that are not SOP
NonSopTypes == {"TCPC_TX_HARD_RESET", "TCPC_TX_SOP_PRIME"}

\* history of a transmit call: its type, whether a message came with it,
\* whether the call faulted, and its return value (-1: it never returned)
TxCall(type, absent, fault) ==
    /\ lastcall' = [fn |-> "pd_transmit", type |-> type, absent |-> absent,
                    fault |-> fault, ret |-> IF fault THEN -1 ELSE 0]
    /\ UNCHANGED <<rcvd, ids>>

\* the port manager transmits without a message
EnvTxAbsent ==
    \E type \in NonSopTypes, fault \in BOOLEAN :
        /\ tcpmtest_pd_transmit_absent(type, fault)
        /\ TxCall(type, TRUE, fault)

\* the port manager transmits a Request
EnvTxRequest ==
    /\ data.rx_id < MaxRxId
    /\ tcpmtest_pd_transmit("TCPC_TX_SOP", Request1)
    /\ TxCall("TCPC_TX_SOP", FALSE, FALSE)

\* sessions in both roles with transmits that carry no message
NextTx ==
    \/ EnvMode({"TESTMODE_SNK", "TESTMODE_SRC", "TESTMODE_NONE"}) /\ OtherCall
    \/ EnvPdRx({TRUE}) /\ OtherCall
    \/ EnvTxAbsent
    \/ EnvTxRequest
    \/ WorkerPick /\ Quiet
    \/ TimerExpire /\ Quiet
    \/ EventWork /\ Quiet
    \/ TmoTest /\ Quiet
    \/ TmoDeliver /\ Quiet
    \/ TmoSmLoad /\ Quiet
    \/ TmoSm /\ Quiet

SpecTx == Init /\ [][NextTx]_vars

\* values written to the mode attribute: the four names, with and without
\* the newline that echo appends, and values that are none of them
ModeNames ==
    {<<"n", "o", "n", "e">>, <<"r", "e", "s", "e", "t">>,
     <<"s", "n", "k">>, <<"s", "r", "c">>}

ModeWrites ==
    ModeNames
        \cup {Append(n, "\n") : n \in ModeNames}
        \cup {<<>>, <<"\n">>, <<"s", "n">>, <<"s", "n", "k", "x">>,
              <<"s", "n", "k", "\n", "\n">>, <<"S", "R", "C">>,
              <<"\n", "s", "r", "c">>, <<"s", "r", "c", " ">>}

\* the operator writes buf to the mode attribute; the history keeps the
\* value and what the write returned
EnvStore ==
    \E buf \in ModeWrites :
        /\ sysfs_store_write(buf, Len(buf))
        /\ lastcall' = [fn |-> "sysfs_store", buf |-> buf,
                        ret |-> sysfs_store_ret(buf, Len(buf))]
        /\ UNCHANGED <<rcvd, ids>>

\* mode writes of every kind against PD receive, VBUS and the worker
NextStore ==
    \/ EnvStore
    \/ EnvPdRx({TRUE}) /\ OtherCall
    \/ EnvVbus /\ OtherCall
    \/ WorkerPick /\ Quiet
    \/ TimerExpire /\ Quiet
    \/ EventWork /\ Quiet
    \/ TmoTest /\ Quiet
    \/ TmoDeliver /\ Quiet
    \/ TmoSmLoad /\ Quiet
    \/ TmoSm /\ Quiet

SpecStore == Init /\ [][NextStore]_vars

\* expiries of the delayed work that are outstanding: the running timer,
\* and expired work that waits in the queue
Outstanding(d) ==
    (IF d.timer THEN 1 ELSE 0)
        + Cardinality({i \in 1..Len(d.wq) : d.wq[i] = "tmo_work"})

\* the dispatcher pass that is about to run calls mod_delayed_work: its
\* state-machine step starts from SourceStart (delay = 5), or a message is
\* left to deliver when the pass ends
PassArms ==
    \/ event_msg_tx(event_vbus_chng(event_mode_set(data))).state
           = "SSTATE_SRC_START"
    \/ data'.request.msg_rx

NoArming == [fn |-> "timer", replaced |-> FALSE, callbacks |-> 0]

\* history of the timer: whether the last arming found an expiry
\* outstanding, and the timer callbacks started since that arming
TrackTimer ==
    /\ lastcall' =
           LET h == IF lastcall.fn = "timer" THEN lastcall ELSE NoArming
           IN  IF pc = "event_work" /\ pc' = "idle" /\ PassArms
               THEN [h EXCEPT !.replaced = Outstanding(data) > 0,
                              !.callbacks = 0]
               ELSE IF pc = "idle" /\ pc' = "tmo_work"
               THEN [h EXCEPT !.callbacks = IF @ < 2 THEN @ + 1 ELSE 2]
               ELSE h
    /\ UNCHANGED <<rcvd, ids>>

\* sessions in both roles, with every arming of the delayed work followed
NextTimer ==
    \/ EnvMode(TestModes) /\ TrackTimer
    \/ EnvPdRx(BOOLEAN) /\ TrackTimer
    \/ EnvTx({<<"TCPC_TX_SOP", Request1>>,
              <<"TCPC_TX_HARD_RESET", TxMsg("PD_CTRL_GOOD_CRC", 0, 0)>>},
             MaxRxId) /\ TrackTimer
    \/ WorkerPick /\ TrackTimer
    \/ TimerExpire /\ TrackTimer
    \/ EventWork /\ TrackTimer
    \/ TmoTest /\ TrackTimer
    \/ TmoDeliver /\ TrackTimer
    \/ TmoSmLoad /\ TrackTimer
    \/ TmoSm /\ TrackTimer

SpecTimer == Init /\ [][NextTimer]_vars

\* transmits the classifiers answer with a hard reset in at least one role:
\* Reject, the three swaps, GetSourceCap, and the three data messages
ViolArgs ==
    {<<"TCPC_TX_SOP", TxMsg(t, 0, 0)>> :
        t \in {"PD_CTRL_REJECT", "PD_CTRL_DR_SWAP", "PD_CTRL_PR_SWAP",
               "PD_CTRL_VCONN_SWAP", "PD_CTRL_GET_SOURCE_CAP"}}
        \cup {<<"TCPC_TX_SOP", m>> : m \in TxData}

\* sessions in both roles against those transmits
NextViol ==
    \/ EnvMode({"TESTMODE_NONE", "TESTMODE_SNK", "TESTMODE_SRC"}) /\ Quiet
    \/ EnvPdRx({TRUE}) /\ Quiet
    \/ EnvTx(ViolArgs, MaxRxId) /\ Quiet
    \/ WorkerPick /\ Quiet
    \/ TimerExpire /\ Quiet
    \/ EventWork /\ Quiet
    \/ TmoTest /\ Quiet
    \/ TmoDeliver /\ Quiet
    \/ TmoSmLoad /\ Quiet
    \/ TmoSm /\ Quiet

SpecViol == Init /\ [][NextViol]_vars

\* the five control messages of the classifiers' empty cases, and the two
\* data messages that bring a session to a staged reply
AbsorbArgs ==
    {<<"TCPC_TX_SOP", TxMsg(t, 0, 0)>> :
        t \in {"PD_CTRL_ACCEPT", "PD_CTRL_GOOD_CRC", "PD_CTRL_GOTO_MIN",
               "PD_CTRL_PING", "PD_CTRL_PS_RDY"}}
        \cup {<<"TCPC_TX_SOP", Request1>>,
              <<"TCPC_TX_SOP",
                TxMsg("PD_DATA_SOURCE_CAP", 1,
                      PDO_FIXED(5000, 1500, PDO_FIXED_USB_COMM))>>}

\* sessions in both roles against those transmits
NextAbsorb ==
    \/ EnvMode({"TESTMODE_NONE", "TESTMODE_SNK", "TESTMODE_SRC"}) /\ Quiet
    \/ EnvPdRx({TRUE}) /\ Quiet
    \/ EnvVbus /\ Quiet
    \/ EnvTx(AbsorbArgs, MaxRxId) /\ Quiet
    \/ WorkerPick /\ Quiet
    \/ TimerExpire /\ Quiet
    \/ EventWork /\ Quiet
    \/ TmoTest /\ Quiet
    \/ TmoDeliver /\ Quiet
    \/ TmoSmLoad /\ Quiet
    \/ TmoSm /\ Quiet

SpecAbsorb == Init /\ [][NextAbsorb]_vars

\* VDM headers offered by the environment: both SVIDs, the four command
\* types (CMDT_INIT 0, ACK 1, NAK 2, BUSY 3), the three Discover commands,
\* CMD_ENTER_MODE (4) and CMD_DP_STATUS (16), structured and unstructured
VdmHdrs ==
    LET str == {VDO_STR(svid, 0, 0, cmdt, cmd) :
                    svid \in {USB_SID_PD, USB_SID_DISPLAYPORT},
                    cmdt \in {0, 1}, cmd \in {1, 2, 3, 4}}
                 \cup {VDO_STR(USB_SID_DISPLAYPORT, 0, 0, cmdt, 3) : cmdt \in {2, 3}}
                 \cup {VDO_STR(USB_SID_DISPLAYPORT, 0, 0, 0, 16)}
    IN  str \cup {VDO_STR(svid, 0, 0, 0, cmd) - Bit(15) :
                      svid \in {USB_SID_PD, USB_SID_DISPLAYPORT}, cmd \in {1, 3}}

VdmArgs == {<<"TCPC_TX_SOP", TxMsg("PD_DATA_VENDOR_DEF", 1, h)>> : h \in VdmHdrs}

\* the port manager transmits a Vendor-Defined message while the counter
\* is below the bound
EnvVdm ==
    /\ data.rx_id < MaxRxId
    /\ \E arg \in VdmArgs : tcpmtest_pd_transmit(arg[1], arg[2])

\* one session, as sink or as source, against Vendor-Defined messages
NextVdm ==
    \/ EnvMode({"TESTMODE_SNK", "TESTMODE_SRC"}) /\ Quiet
    \/ EnvPdRx({TRUE}) /\ Quiet
    \/ EnvVdm /\ Quiet
    \/ WorkerPick /\ Quiet
    \/ TimerExpire /\ Quiet
    \/ EventWork /\ Quiet
    \/ TmoTest /\ Quiet
    \/ TmoDeliver /\ Quiet
    \/ TmoSmLoad /\ Quiet
    \/ TmoSm /\ Quiet

SpecVdm == Init /\ [][NextVdm]_vars

\* sink sessions: the sink is started and ended by the operator, with every
\* message, PD receive and VBUS
NextSnk ==
    \/ EnvMode({"TESTMODE_NONE", "TESTMODE_RESET", "TESTMODE_SNK"}) /\ Quiet
    \/ EnvPdRx(BOOLEAN) /\ Quiet
    \/ EnvVbus /\ Quiet
    \/ EnvTx(TxArgs, MaxRxId) /\ Quiet
    \/ WorkerPick /\ Quiet
    \/ TimerExpire /\ Quiet
    \/ EventWork /\ Quiet
    \/ TmoTest /\ Quiet
    \/ TmoDeliver /\ Quiet
    \/ TmoSmLoad /\ Quiet
    \/ TmoSm /\ Quiet

SpecSnk == Init /\ [][NextSnk]_vars

\* history of a negotiation: whether an Accept has been staged from
\* SourceSendRequestAccept, and whether tcpm_pd_receive has handed that
\* Accept to the port manager since
NoAccept == [fn |-> "accept", staged |-> FALSE, delivered |-> FALSE]

TrackAccept ==
    /\ lastcall' =
           LET h == IF lastcall.fn = "accept" THEN lastcall ELSE NoAccept
           IN  IF /\ data'.state = "SSTATE_SRC_SEND_PS_RDY"
                  /\ data.state # "SSTATE_SRC_SEND_PS_RDY"
               THEN [h EXCEPT !.staged = TRUE, !.delivered = FALSE]
               ELSE IF /\ pc = "tmo_deliver" /\ pc' = "tmo_sm_load"
                       /\ data'.rx_msg.header.type = "PD_CTRL_ACCEPT"
                       /\ h.staged
               THEN [h EXCEPT !.delivered = TRUE]
               ELSE IF data'.state \notin {"SSTATE_SRC_SEND_PS_RDY",
                                           "SSTATE_SRC_RUN"}
               THEN NoAccept
               ELSE h
    /\ UNCHANGED <<rcvd, ids>>

\* source sessions in which the port manager sends a Request or a
\* HardReset, with the negotiation followed
NextNeg ==
    \/ EnvMode({"TESTMODE_NONE", "TESTMODE_SRC"}) /\ TrackAccept
    \/ EnvPdRx({TRUE}) /\ TrackAccept
    \/ EnvTx({<<"TCPC_TX_SOP", Request1>>,
              <<"TCPC_TX_HARD_RESET", TxMsg("PD_CTRL_GOOD_CRC", 0, 0)>>},
             MaxRxId) /\ TrackAccept
    \/ WorkerPick /\ TrackAccept
    \/ TimerExpire /\ TrackAccept
    \/ EventWork /\ TrackAccept
    \/ TmoTest /\ TrackAccept
    \/ TmoDeliver /\ TrackAccept
    \/ TmoSmLoad /\ TrackAccept
    \/ TmoSm /\ TrackAccept

SpecNeg == Init /\ [][NextNeg]_vars

\* history of transmit calls: the calls that have had no transmit-complete
\* callback yet
NoPending == [fn |-> "tx", pending |-> 0]

Completions(d) ==
    Cardinality({i \in 1..Len(d.port) :
                    d.port[i] \in {"tcpm_pd_transmit_complete(TCPC_TX_SUCCESS)",
                                   "tcpm_pd_transmit_complete(TCPC_TX_FAILED)"}})

\* the port manager transmits while fewer than MaxPending calls are open
EnvTxCounted ==
    LET h == IF lastcall.fn = "tx" THEN lastcall ELSE NoPending
    IN  /\ h.pending < MaxPending
        /\ EnvTx({<<"TCPC_TX_SOP", TxMsg("PD_CTRL_GET_SINK_CAP", 0, 0)>>,
                  <<"TCPC_TX_SOP", TxMsg("PD_CTRL_PING", 0, 0)>>}, MaxRxId)
        /\ lastcall' = [h EXCEPT !.pending = @ + 1]
        /\ UNCHANGED <<rcvd, ids>>

\* every transmit-complete of the step closes one open call
TrackDone ==
    /\ lastcall' =
           LET h == IF lastcall.fn = "tx" THEN lastcall ELSE NoPending
               n == Completions(data')
           IN  [h EXCEPT !.pending = IF @ > n THEN @ - n ELSE 0]
    /\ UNCHANGED <<rcvd, ids>>

\* sink sessions with transmit calls counted against their completions
NextDone ==
    \/ EnvMode({"TESTMODE_NONE", "TESTMODE_SNK"}) /\ TrackDone
    \/ EnvPdRx({TRUE}) /\ TrackDone
    \/ EnvTxCounted
    \/ WorkerPick /\ TrackDone
    \/ TimerExpire /\ TrackDone
    \/ EventWork /\ TrackDone
    \/ TmoTest /\ TrackDone
    \/ TmoDeliver /\ TrackDone
    \/ TmoSmLoad /\ TrackDone
    \/ TmoSm /\ TrackDone

SpecDone == Init /\ [][NextDone]_vars

\* the PDO-type cache of the message logger (data->src_cap_pdo_type), kept
\* in the history with the indices the last tcpmtest_log_msg used on it
PDO_MAX_OBJECTS == 7

\* (pdo >> PDO_TYPE_SHIFT) & PDO_TYPE_MASK
pdo_type(pdo) == Field(pdo, 30, 2)

\* (rdo >> RDO_INDEX_SHIFT) & RDO_INDEX_MASK
rdo_index(rdo) == Field(rdo, 28, 3)

\* devm_kzalloc: every entry is 0 (PDO_TYPE_FIXED)
NoLog ==
    [fn |-> "log", cache |-> [i \in 0..(PDO_MAX_OBJECTS - 1) |-> 0],
     used |-> <<>>, type |-> 0, fault |-> FALSE]

\* tcpmtest_log_capability_pdo: the store data->src_cap_pdo_type[index] = type
tcpmtest_log_capability_pdo(log, pdo, index) ==
    [log EXCEPT !.cache = IF index \in DOMAIN @
                          THEN [@ EXCEPT ![index] = pdo_type(pdo)]
                          ELSE @,
                !.used = Append(@, index)]

\* unsigned int index = rdo_index(rdo) - 1: the subtraction wraps to
\* 0xffffffff for position 0
request_index(rdo) ==
    IF rdo_index(rdo) = 0 THEN Word(65535, 65535) ELSE rdo_index(rdo) - 1

\* tcpmtest_log_request_pdo: the load type = data->src_cap_pdo_type[index].
\* A load outside the array is undefined: it faults, or it yields whatever
\* lies there (stray)
tcpmtest_log_request_pdo(log, rdo, fault, stray) ==
    LET index == request_index(rdo)
    IN  IF index \in DOMAIN log.cache
        THEN [log EXCEPT !.used = Append(@, index), !.type = log.cache[index]]
        ELSE [log EXCEPT !.used = Append(@, index), !.type = stray,
                         !.fault = fault]

\* the loop of tcpmtest_log_msg over the data objects, from object ix on
RECURSIVE log_objects(_, _, _, _, _)
log_objects(log, msg, ix, fault, stray) ==
    IF ix >= msg.header.cnt \/ log.fault THEN log
    ELSE LET dobj == msg.payload[ix]
             type == msg.header.type
             next == CASE type \in {"PD_DATA_SOURCE_CAP", "PD_DATA_SINK_CAP"} ->
                              tcpmtest_log_capability_pdo(log, dobj, ix)
                       [] type = "PD_DATA_REQUEST" ->
                              tcpmtest_log_request_pdo(log, dobj, fault, stray)
                       [] OTHER -> log
         IN  log_objects(next, msg, ix + 1, fault, stray)

tcpmtest_log_msg(log, msg, fault, stray) ==
    log_objects([log EXCEPT !.used = <<>>, !.fault = FALSE], msg, 0, fault, stray)

\* data objects of the capability messages offered to the logger: a fixed
\* and a variable supply
LogPdos == {PDO_FIXED(5000, 1500, PDO_FIXED_USB_COMM), Word(Bit(15), 0)}

\* capability messages of 1 to 7 objects, the unused words zero
LogCaps ==
    UNION {{[header |-> PD_HEADER(t, "TYPEC_SOURCE", "TYPEC_HOST", 0, cnt),
             payload |-> [i \in 0..(PDO_MAX_OBJECTS - 1) |->
                              IF i < cnt THEN p[i] ELSE 0]] :
               t \in {"PD_DATA_SOURCE_CAP", "PD_DATA_SINK_CAP"},
               p \in [0..(cnt - 1) -> LogPdos]} :
           cnt \in 1..PDO_MAX_OBJECTS}

\* Request messages with every object position of the 3-bit field
LogRequests ==
    {TxMsg("PD_DATA_REQUEST", 1, RDO_FIXED(pos, 1500, 1500, RDO_USB_COMM)) :
        pos \in 0..7}

\* tcpmtest_log_msg on a capability message
LogCapability ==
    /\ \E msg \in LogCaps :
          lastcall' = tcpmtest_log_msg(IF lastcall.fn = "log" THEN lastcall
                                       ELSE NoLog, msg, FALSE, 0)
    /\ UNCHANGED <<data, pc, w, rcvd, ids>>

\* tcpmtest_log_msg on a Request
LogRequest ==
    /\ \E msg \in LogRequests, fault \in BOOLEAN, stray \in 0..3 :
          lastcall' = tcpmtest_log_msg(IF lastcall.fn = "log" THEN lastcall
                                       ELSE NoLog, msg, fault, stray)
    /\ UNCHANGED <<data, pc, w, rcvd, ids>>

NextLog ==
    \/ LogCapability
    \/ LogRequest

\* the logger alone, on the messages pd_transmit and the timer callback
\* hand to it
SpecLog == Init /\ [][NextLog]_vars

\* history of sessions: the number of the session last started, and the
\* session in which the message last staged was staged
NoSess == [fn |-> "sess", session |-> 0, stagedIn |-> 0]

\* a session starts when the dispatcher leaves mode None; a message staged
\* in the pass that starts the session belongs to it, being staged after
\* the mode request is consumed
TrackSess ==
    /\ lastcall' =
           LET h == IF lastcall.fn = "sess" THEN lastcall ELSE NoSess
               s == IF /\ data.sysfs.mode = "TESTMODE_NONE"
                       /\ data'.sysfs.mode # "TESTMODE_NONE"
                    THEN h.session + 1
                    ELSE h.session
           IN  [h EXCEPT !.session = s,
                         !.stagedIn =
                             IF \E i \in 1..Len(data'.trace) :
                                    data'.trace[i].op = "stage"
                             THEN s ELSE @]
    /\ UNCHANGED <<rcvd, ids>>

\* the operator asks for a session while fewer than MaxSessions have started
EnvModeSess ==
    /\ (IF lastcall.fn = "sess" THEN lastcall ELSE NoSess).session < MaxSessions
    /\ EnvMode({"TESTMODE_SNK", "TESTMODE_SRC"})

\* sessions that follow one another, with the transmits the simulated peer
\* answers
NextSess ==
    \/ EnvModeSess /\ TrackSess
    \/ EnvMode({"TESTMODE_NONE", "TESTMODE_RESET"}) /\ TrackSess
    \/ EnvPdRx({TRUE}) /\ TrackSess
    \/ EnvTx({<<"TCPC_TX_SOP", TxMsg("PD_CTRL_GET_SINK_CAP", 0, 0)>>,
              <<"TCPC_TX_SOP", TxMsg("PD_CTRL_GET_SOURCE_CAP", 0, 0)>>,
              <<"TCPC_TX_SOP", Request1>>}, MaxRxId) /\ TrackSess
    \/ WorkerPick /\ TrackSess
    \/ TimerExpire /\ TrackSess
    \/ EventWork /\ TrackSess
    \/ TmoTest /\ TrackSess
    \/ TmoDeliver /\ TrackSess
    \/ TmoSmLoad /\ TrackSess
    \/ TmoSm /\ TrackSess

SpecSess == Init /\ [][NextSess]_vars

(* ------------------------------ properties ----------------------------- *)

\* the number of times the running step notified the port manager with fn
Count(fn) == Cardinality({i \in 1..Len(data'.port) : data'.port[i] = fn})

\* the last step notified the port manager with fn
Called(fn) == \E i \in 1..Len(data.port) : data.port[i] = fn

Sessions == {"TESTMODE_SNK", "TESTMODE_SRC"}

\* the step is a dispatcher pass (tcpmtest_event_work)
Pass == pc = "event_work" /\ pc' = "idle"

\* the step is the timer callback's hand-over of the staged message
Delivery == pc = "tmo_deliver" /\ pc' = "tmo_sm_load"

\* C1: no session overlap. The active mode becomes Sink or Source, and
\* SimState leaves Idle, only in a dispatcher pass (tcpmtest_event_work) that
\* starts with the active mode None and SimState Idle; the active mode is
\* None exactly when SimState is Idle.
C1_NoSessionOverlap ==
    [][/\ (data'.sysfs.mode \in Sessions /\ data'.sysfs.mode # data.sysfs.mode)
           => /\ Pass
              /\ data.sysfs.mode = "TESTMODE_NONE"
              /\ data.state = "SSTATE_NONE"
              /\ data'.state \in {"SSTATE_SNK_RUN", "SSTATE_SRC_VBUS"}
       /\ (data.state = "SSTATE_NONE" /\ data'.state # "SSTATE_NONE")
           => /\ Pass
              /\ data.sysfs.mode = "TESTMODE_NONE"
              /\ data'.sysfs.mode \in Sessions
       /\ (data'.sysfs.mode = "TESTMODE_NONE") <=> (data'.state = "SSTATE_NONE")
      ]_vars

\* C1: a sink session armed after a source session, in which the simulated
\* source had synthesized a message, has ended
C1_Witness ==
    /\ data.sysfs.mode = "TESTMODE_SNK"
    /\ data.state = "SSTATE_SNK_RUN"
    /\ Called("tcpm_cc_change")
    /\ data.rx_msg.header.pwr = "TYPEC_SOURCE"

\* C6: a dispatcher pass that processes a mode request of reset while a
\* session is active leaves VBUS-present false, both CC lines open and the
\* message-ID counter 0, and notifies the port manager with exactly one
\* tcpm_tcpc_reset and no tcpm_cc_change; for a request of none, with exactly
\* one tcpm_cc_change and no tcpm_tcpc_reset.
C6_ResetVersusNone ==
    [][(/\ Pass
        /\ data.request.mode_set
        /\ data.sysfs.mode \in Sessions
        /\ data.sysfs.mode_req \in {"TESTMODE_RESET", "TESTMODE_NONE"})
       => /\ ~data'.vbus_present
          /\ data'.cc1_status = "TYPEC_CC_OPEN"
          /\ data'.cc2_status = "TYPEC_CC_OPEN"
          /\ data'.rx_id = 0
          /\ data'.state = "SSTATE_NONE"
          /\ IF data.sysfs.mode_req = "TESTMODE_RESET"
             THEN Count("tcpm_tcpc_reset") = 1 /\ Count("tcpm_cc_change") = 0
             ELSE Count("tcpm_cc_change") = 1 /\ Count("tcpm_tcpc_reset") = 0
      ]_vars

\* C6: a reset processed in a session that had VBUS present and had
\* synthesized messages
C6_Witness ==
    /\ pc = "idle"
    /\ Called("tcpm_tcpc_reset")
    /\ data.state = "SSTATE_NONE"
    /\ data.rx_msg.header.type = "PD_CTRL_ACCEPT"
    /\ data.rx_id = 0

\* the types of the messages delivered so far
Types == [i \in 1..Len(rcvd) |-> rcvd[i].header.type]

RoundTrip == <<"PD_DATA_SOURCE_CAP", "PD_CTRL_ACCEPT", "PD_CTRL_PS_RDY">>

\* nothing is pending: the worker is idle, no work is queued, no timer runs
Quiescent == pc = "idle" /\ data.wq = <<>> /\ ~data.timer

\* C2, as stated: SimState is SourceRunning only after the port manager has
\* received SourceCapabilities, one Accept and one PowerReady, in that order.
C2_RunAfterPowerReady ==
    data.state = "SSTATE_SRC_RUN" => Types = RoundTrip

\* C2, amended: the port manager receives SourceCapabilities, Accept and
\* PowerReady in that order and at most once each; SimState is SourceRunning
\* only after SourceCapabilities and exactly one Accept were received, from
\* the step that stages PowerReady, and PowerReady is received only later.
C2_RunAfterAccept ==
    /\ Len(rcvd) <= 3
    /\ Types = SubSeq(RoundTrip, 1, Len(rcvd))
    /\ data.state = "SSTATE_SRC_RUN"
           => \/ /\ Len(rcvd) = 2
                 /\ data.request.msg_rx
                 /\ data.rx_msg.header.type = "PD_CTRL_PS_RDY"
              \/ Len(rcvd) = 3
    /\ Len(rcvd) = 3 => data.state = "SSTATE_SRC_RUN"

\* C2: SimState is SourceRunning, Accept was received, PowerReady is staged
\* and not yet received
C2_Witness ==
    /\ data.state = "SSTATE_SRC_RUN"
    /\ Types = <<"PD_DATA_SOURCE_CAP", "PD_CTRL_ACCEPT">>
    /\ data.request.msg_rx
    /\ data.rx_msg.header.type = "PD_CTRL_PS_RDY"

\* C3: once a Request was transmitted in SourceAwaitRequest and nothing is
\* pending any more, Accept and PowerReady have been received, in that order,
\* and SimState is SourceRunning.
C3_NegotiationCompletes ==
    (/\ Quiescent
     /\ data.sysfs.mode = "TESTMODE_SRC"
     /\ data.tx_msg.header.type = "PD_DATA_REQUEST"
     /\ ~data.request.msg_tx)
    => /\ Types = RoundTrip
       /\ data.state = "SSTATE_SRC_RUN"

\* C4: once mode src is armed, the VBUS ramp timer has expired, PD receive is
\* enabled and nothing is pending any more, SourceCapabilities with one fixed
\* PDO of 5 V / 3 A, dual-role, external power, USB comm and data swap has
\* been received.
C4_SourceCapDelivered ==
    (/\ Quiescent
     /\ data.sysfs.mode = "TESTMODE_SRC"
     /\ data.pd_rx_enable
     /\ data.state \notin {"SSTATE_SRC_START", "SSTATE_SRC_VBUS"})
    => /\ Len(rcvd) >= 1
       /\ rcvd[1].header.type = "PD_DATA_SOURCE_CAP"
       /\ rcvd[1].header.cnt = 1
       /\ pdo_decode(rcvd[1].payload[0]) =
              [type |-> 0, drp |-> TRUE, ss |-> FALSE, ep |-> TRUE,
               cc |-> TRUE, drd |-> TRUE, volt |-> 5000, curr |-> 3000]

\* C8: the header ID of the i-th message synthesized since the last counter
\* reset is (i - 1) modulo 8, hence within 0..7; the counter equals the number
\* of messages synthesized since that reset, so each synthesis adds exactly
\* one; the staged header carries the ID synthesized last.
C8_MessageIdArithmetic ==
    /\ \A i \in 1..Len(ids) : ids[i] = (i - 1) % 8 /\ ids[i] \in 0..7
    /\ data.rx_id = Len(ids)
    /\ Len(ids) > 0 => data.rx_msg.header.id = ids[Len(ids)]

\* C8: a ninth message was synthesized without a reset, its ID wrapped to 0
C8_Witness ==
    /\ Len(ids) = 9
    /\ ids[8] = 7
    /\ ids[9] = 0
    /\ data.rx_id = 9
    /\ data.rx_msg.header.id = 0

\* a dispatcher pass is about to consume a message transmitted as SOP
Consumes(type) ==
    /\ Pass
    /\ data.request.msg_tx
    /\ data.tx_type = "TCPC_TX_SOP"
    /\ data.tx_msg.header.type = type

\* the pass is about to end the session as well
EndsSession ==
    /\ data.request.mode_set
    /\ data.sysfs.mode_req \in {"TESTMODE_NONE", "TESTMODE_RESET"}

\* a SinkCapabilities data message is consumed in Source mode, SourceRunning
SinkCapInSourceRunning ==
    /\ Consumes("PD_DATA_SINK_CAP")
    /\ data.tx_msg.header.cnt > 0
    /\ data.sysfs.mode = "TESTMODE_SRC"
    /\ data.state = "SSTATE_SRC_RUN"

\* C5, as stated: the dispatcher pass that consumes a SinkCapabilities data
\* message in Source mode, SourceRunning, notifies the port manager of a hard
\* reset from the peer.
C5_SinkCapHardReset ==
    [][SinkCapInSourceRunning => Count("tcpm_pd_hard_reset") >= 1]_vars

\* C5, amended: that pass absorbs the message: it completes the transmit with
\* success, issues no hard-reset notification, and, unless it also ends the
\* session, leaves SimState, the message-ID counter and the staged message
\* as they were.
C5_SinkCapAbsorbed ==
    [][SinkCapInSourceRunning
       => /\ Count("tcpm_pd_hard_reset") = 0
          /\ Count("tcpm_pd_transmit_complete(TCPC_TX_SUCCESS)") = 1
          /\ Count("tcpm_pd_transmit_complete(TCPC_TX_FAILED)") = 0
          /\ ~EndsSession
                 => /\ data'.state = "SSTATE_SRC_RUN"
                    /\ data'.rx_id = data.rx_id
                    /\ data'.rx_msg = data.rx_msg
                    /\ data'.request.msg_rx = data.request.msg_rx
      ]_vars

\* C5: the pass has consumed SinkCapabilities in SourceRunning, after
\* PowerReady was delivered
C5_Witness ==
    /\ pc = "idle"
    /\ Called("tcpm_pd_transmit_complete(TCPC_TX_SUCCESS)")
    /\ data.tx_type = "TCPC_TX_SOP"
    /\ data.tx_msg.header.type = "PD_DATA_SINK_CAP"
    /\ data.sysfs.mode = "TESTMODE_SRC"
    /\ data.state = "SSTATE_SRC_RUN"
    /\ data.rx_msg.header.type = "PD_CTRL_PS_RDY"
    /\ ~data.request.msg_rx

\* the Request of the simulated sink: one fixed-supply request object for
\* object position 1, 1500 mA operating and maximum current, USB comm, sent
\* as power role Sink and data role Device
IsSinkRequest(m) ==
    /\ m.header.type = "PD_DATA_REQUEST"
    /\ m.header.cnt = 1
    /\ m.header.pwr = "TYPEC_SINK"
    /\ m.header.drole = "TYPEC_DEVICE"
    /\ rdo_decode(m.payload[0]) =
           [index |-> 1, gb |-> FALSE, cm |-> FALSE, cc |-> TRUE, ns |-> FALSE,
            curr1 |-> 1500, curr2 |-> 1500]

\* the number of messages the running step synthesized
Staged == Cardinality({i \in 1..Len(data'.trace) : data'.trace[i].op = "stage"})

\* the staged message will be handed over: the response timer runs, or its
\* callback is queued or running
DeliveryPending ==
    \/ data.timer
    \/ \E i \in 1..Len(data.wq) : data.wq[i] = "tmo_work"
    \/ pc \in {"tmo_work", "tmo_deliver"}

\* C7: a dispatcher pass that consumes a SourceCapabilities data message in
\* Sink mode (and does not end the session) stages exactly one message, the
\* Request of the simulated sink, and arms the response timer; a staged
\* Request always has its delivery pending, is given up only by a later
\* dispatcher pass, and the timer callback hands it to the port manager
\* unchanged.
C7_SinkRequestReply ==
    [][/\ (/\ Consumes("PD_DATA_SOURCE_CAP")
           /\ data.tx_msg.header.cnt > 0
           /\ data.sysfs.mode = "TESTMODE_SNK"
           /\ ~EndsSession)
          => /\ Staged = 1
             /\ IsSinkRequest(data'.rx_msg)
             /\ data'.request.msg_rx
             /\ data'.timer
       /\ (data'.request.msg_rx /\ IsSinkRequest(data'.rx_msg))
          => DeliveryPending'
       /\ (/\ data.request.msg_rx
           /\ IsSinkRequest(data.rx_msg)
           /\ ~(data'.request.msg_rx /\ data'.rx_msg = data.rx_msg))
          => Pass \/ Delivery
       /\ (Delivery /\ IsSinkRequest(data.rx_msg))
          => /\ Count("tcpm_pd_receive") = 1
             /\ data'.rx_msg = data.rx_msg
             /\ ~data'.request.msg_rx
      ]_vars

\* C7: the timer callback has handed the Request to the port manager
C7_Witness ==
    /\ Called("tcpm_pd_receive")
    /\ IsSinkRequest(data.rx_msg)
    /\ data.tx_msg.header.type = "PD_DATA_SOURCE_CAP"
    /\ data.sysfs.mode = "TESTMODE_SNK"
    /\ ~data.request.msg_rx

\* the counter after the writes the running step made to it, in order
RECURSIVE ReplayCounter(_, _)
ReplayCounter(n, tr) ==
    IF tr = <<>> THEN n
    ELSE ReplayCounter(CASE Head(tr).op = "reset" -> 0
                         [] Head(tr).op = "stage" -> n + 1
                         [] OTHER -> n,
                       Tail(tr))

\* the running step wrote 0 to the counter
Resets == \E i \in 1..Len(data'.trace) : data'.trace[i].op = "reset"

\* the active mode when the pass consumes the transmitted message
ModeAtConsume == event_mode_set(data).sysfs.mode

\* a SoftReset control message consumed in Sink or Source mode
SoftResetConsumed ==
    /\ Consumes("PD_CTRL_SOFT_RESET")
    /\ data.tx_msg.header.cnt = 0
    /\ ModeAtConsume \in Sessions

\* a HardReset transmit consumed in Sink or Source mode
HardResetTransmit ==
    /\ Pass
    /\ data.request.msg_tx
    /\ data.tx_type = "TCPC_TX_HARD_RESET"
    /\ ModeAtConsume \in Sessions

\* C9: the counter is lowered only by a step that writes 0 to it; 0 is
\* written by, and only by, a dispatcher pass that consumes a SoftReset in
\* Sink or Source mode, consumes a HardReset transmit, issues a hard reset
\* from the peer, or ends the session; every step leaves the counter at the
\* value its resets and syntheses give, so any other step never lowers it.
C9_CounterReset ==
    [][/\ data'.rx_id < data.rx_id => Resets
       /\ Resets <=> \/ SoftResetConsumed
                     \/ HardResetTransmit
                     \/ Count("tcpm_pd_hard_reset") >= 1
                     \/ data.state # "SSTATE_NONE" /\ data'.state = "SSTATE_NONE"
       /\ data'.rx_id = ReplayCounter(data.rx_id, data'.trace)
       /\ ~Resets => data'.rx_id >= data.rx_id
      ]_vars

\* C9: a SoftReset consumed in Sink mode has set the counter back from 2
C9_Witness ==
    /\ pc = "idle"
    /\ \E i \in 1..Len(data.trace) : data.trace[i].op = "reset"
    /\ data.tx_msg.header.type = "PD_CTRL_SOFT_RESET"
    /\ data.sysfs.mode = "TESTMODE_SNK"
    /\ data.rx_msg.header.id = 1
    /\ data.rx_id = 0

\* C10, as stated: of two setVbus calls with the same (source, sink) pair and
\* no other facade call between them, whatever the worker ran in between, at
\* most one latches VbusChanged.
C10_LatchOnce ==
    ~(lastcall.fn = "set_vbus" /\ lastcall.prev /\ lastcall.latched)

\* C10, amended: both calls latch VbusChanged only when a step of the engine
\* changed VBUS-present between them; otherwise at most one does.
C10_LatchOnceUnlessEngine ==
    (lastcall.fn = "set_vbus" /\ lastcall.prev /\ lastcall.latched)
        => lastcall.engine

\* C10: a repeated call, after worker steps that left VBUS-present alone,
\* that did not latch
C10_Witness ==
    /\ lastcall.fn = "set_vbus"
    /\ lastcall.prev
    /\ ~lastcall.engine
    /\ ~lastcall.latched
    /\ data.sysfs.mode \in Sessions

\* struct tcpmtest_data without the logs of the step that produced it
State(d) == [d EXCEPT !.port = <<>>, !.trace = <<>>]

\* the dispatcher pass is pending in the workqueue
PassQueued(d) == \E i \in 1..Len(d.wq) : d.wq[i] = "event_work"

\* the step is a set_vbus call: the history records it, and the worker's
\* position and the timer are left alone
SetVbusStep ==
    /\ lastcall'.fn = "set_vbus"
    /\ pc' = pc
    /\ data'.timer = data.timer
    /\ data'.wq = data.wq \/ data'.wq = Append(data.wq, "event_work")

\* C11: a call set_vbus(source, sink) leaves VBUS-present equal to
\* (source OR sink); when that differs from the value held before the call it
\* latches VbusChanged and leaves a dispatcher pass pending, changing nothing
\* else; when it does not differ the call changes nothing at all.
C11_SetVbusEffect ==
    [][SetVbusStep
       => LET v == lastcall'.a \/ lastcall'.b
          IN  /\ data'.vbus_present = v
              /\ IF v # data.vbus_present
                 THEN /\ data'.request.vbus_chng
                      /\ PassQueued(data')
                      /\ lastcall'.latched
                      /\ [State(data') EXCEPT !.wq = data.wq] =
                             [State(data) EXCEPT !.vbus_present = v,
                                                 !.request.vbus_chng = TRUE]
                 ELSE /\ State(data') = State(data)
                      /\ ~lastcall'.latched
      ]_vars

\* C11: set_vbus(TRUE, FALSE) has latched VbusChanged in a sink session,
\* where VBUS-present was false, while the worker was in the timer callback
C11_Witness ==
    /\ lastcall.fn = "set_vbus"
    /\ lastcall.a
    /\ ~lastcall.b
    /\ lastcall.latched
    /\ ~lastcall.prev
    /\ data.vbus_present
    /\ data.request.vbus_chng
    /\ PassQueued(data)
    /\ data.sysfs.mode = "TESTMODE_SNK"

\* the step is a pd_transmit call without a message: the history records
\* it, and the worker's position and the timer are left alone
TransmitAbsentStep ==
    /\ lastcall'.fn = "pd_transmit"
    /\ lastcall'.absent
    /\ lastcall'.type \in NonSopTypes
    /\ pc' = pc
    /\ data'.timer = data.timer

\* C12: a transmit call of a non-SOP type whose message is absent completes
\* without faulting, returns success, and leaves MessageToProcess latched
\* and a dispatcher pass requested.
C12_AbsentMessageCompletes ==
    [][TransmitAbsentStep
       => /\ ~lastcall'.fault
          /\ lastcall'.ret = 0
          /\ data'.request.msg_tx
          /\ data'.tx_type = lastcall'.type
          /\ PassQueued(data')
      ]_vars

\* the step is a write to the mode attribute
StoreStep ==
    /\ lastcall'.fn = "sysfs_store"
    /\ pc' = pc
    /\ data'.timer = data.timer

\* the written value names a mode: one of the four names, alone or followed
\* by one newline
NamesMode(buf) == \E n \in ModeNames : buf = n \/ buf = Append(n, "\n")

\* C13: a mode write whose value is not one of none, reset, snk, src, or is
\* empty, returns an error and leaves the requested mode, the active mode,
\* SimState, the pending-request flags and the workqueue as they were; a
\* write that names a mode returns the byte count and latches the request.
C13_InvalidInputRejected ==
    [][StoreStep
       => IF NamesMode(lastcall'.buf)
          THEN /\ lastcall'.ret = Len(lastcall'.buf)
               /\ data'.request.mode_set
               /\ PassQueued(data')
          ELSE /\ lastcall'.ret = -EINVAL
               /\ State(data') = State(data)
      ]_vars

\* C13: "snkx" was rejected while a source session had a message to deliver
C13_Witness ==
    /\ lastcall.fn = "sysfs_store"
    /\ lastcall.buf = <<"s", "n", "k", "x">>
    /\ lastcall.ret < 0
    /\ data.sysfs.mode = "TESTMODE_SRC"
    /\ data.sysfs.mode_req = "TESTMODE_SRC"
    /\ data.request.msg_rx
    /\ ~data.request.mode_set

\* C14: every access to the simulator state happens under the one lock, so
\* no latched flag is lost to a concurrent update: a pending-request flag
\* that is set goes back to clear only in the step that consumes it, which
\* is a dispatcher pass or, for MessageToDeliver, the delivery of the timer
\* callback.
C14_NoLatchedFlagLost ==
    [][/\ \A f \in {"mode_set", "msg_tx", "vbus_chng"} :
              data.request[f] /\ ~data'.request[f] => Pass
       /\ data.request.msg_rx /\ ~data'.request.msg_rx => Pass \/ Delivery
      ]_vars

\* the positions one execution goes through: a dispatcher pass, or the
\* steps of a timer callback, from its start to its end
WorkerOrder ==
    {<<"idle", "event_work">>, <<"event_work", "idle">>,
     <<"idle", "tmo_work">>, <<"tmo_work", "tmo_deliver">>,
     <<"tmo_work", "tmo_sm_load">>, <<"tmo_deliver", "tmo_sm_load">>,
     <<"tmo_sm_load", "tmo_sm">>, <<"tmo_sm", "idle">>}

\* C15: dispatcher executions never overlap: a dispatcher pass or a timer
\* callback starts only when no execution is in progress, taking the work
\* item at the head of the queue, and an execution in progress runs to its
\* end before the next one starts, whatever calls and expiries arrive.
C15_SerializedDispatcher ==
    [][pc' # pc
       => /\ <<pc, pc'>> \in WorkerOrder
          /\ pc' \in {"event_work", "tmo_work"}
                => /\ pc = "idle"
                   /\ data.wq # <<>>
                   /\ Head(data.wq) = pc'
                   /\ data'.wq = Tail(data.wq)
      ]_vars

\* C15: the timer has expired and a facade call has asked for another pass
\* while a dispatcher pass is still executing
C15_Witness ==
    /\ pc = "event_work"
    /\ Len(data.wq) = 2
    /\ \E i \in 1..2 : data.wq[i] = "tmo_work"
    /\ PassQueued(data)

\* C16: at most one expiry of the delayed-completion timer is outstanding in
\* every reachable state, and the timer callback starts at most once after
\* an arming, also when that arming found an expiry already pending.
C16_OneTimer ==
    /\ Outstanding(data) <= 1
    /\ lastcall.fn = "timer" => lastcall.callbacks <= 1

\* C16: an arming that replaced a pending expiry has had its one callback
C16_Witness ==
    /\ lastcall.fn = "timer"
    /\ lastcall.replaced
    /\ lastcall.callbacks = 1
    /\ Outstanding(data) = 0

\* the part of a dispatcher pass that issues a callback: 1 VBUS change,
\* 2 inbound-message processing, 3 state-machine step
Rank(fn) ==
    CASE fn = "tcpm_vbus_change" -> 1
      [] fn \in {"tcpm_pd_hard_reset",
                 "tcpm_pd_transmit_complete(TCPC_TX_SUCCESS)",
                 "tcpm_pd_transmit_complete(TCPC_TX_FAILED)"} -> 2
      [] fn \in {"tcpm_cc_change", "tcpm_tcpc_reset"} -> 3
      [] OTHER -> 0

\* C17: every dispatcher pass handles mode-change, VBUS-change, inbound
\* message and then one state-machine step, in that order, whatever the
\* order of the calls that latched them: its callbacks are vbus-changed
\* first, then hard-reset-from-peer and transmit-complete, then the
\* cc-changed or controller-reset of the state-machine step; there is at
\* most one vbus-changed, one transmit-complete and one callback of the
\* state-machine step; a message latched together with a mode change is
\* processed in the mode that the pass has just started; and the
\* state-machine step has left the start and the TransitionToIdle states.
C17_FixedOrder ==
    [][Pass
       => LET p == data'.port
          IN  /\ \A i \in 1..Len(p) : Rank(p[i]) \in 1..3
              /\ \A i, j \in 1..Len(p) : i < j => Rank(p[i]) <= Rank(p[j])
              /\ \A i, j \in 1..Len(p) :
                     /\ i < j
                     /\ p[i] = "tcpm_pd_transmit_complete(TCPC_TX_SUCCESS)"
                     => p[j] # "tcpm_pd_hard_reset"
              /\ Cardinality({i \in 1..Len(p) : Rank(p[i]) = 1}) <= 1
              /\ Cardinality({i \in 1..Len(p) : Rank(p[i]) = 3}) <= 1
              /\ Count("tcpm_pd_transmit_complete(TCPC_TX_SUCCESS)")
                     + Count("tcpm_pd_transmit_complete(TCPC_TX_FAILED)")
                     = (IF data.request.msg_tx THEN 1 ELSE 0)
              /\ Count("tcpm_vbus_change")
                     = (IF data.request.vbus_chng THEN 1 ELSE 0)
              /\ (/\ data.request.mode_set
                  /\ data.request.msg_tx
                  /\ data.sysfs.mode = "TESTMODE_NONE"
                  /\ data.sysfs.mode_req \in Sessions)
                     => Count("tcpm_pd_transmit_complete(TCPC_TX_SUCCESS)") = 1
              /\ data'.state \notin {"SSTATE_SNK_START", "SSTATE_SRC_START",
                                     "SSTATE_TO_NONE"}
      ]_vars

\* C17: one pass has handled a mode change to Sink, a VBUS change and a
\* transmitted Request, latched in another order, and has issued all four
\* kinds of callback
C17_Witness ==
    /\ pc = "idle"
    /\ data.port = <<"tcpm_vbus_change", "tcpm_pd_hard_reset",
                     "tcpm_pd_transmit_complete(TCPC_TX_SUCCESS)",
                     "tcpm_cc_change">>
    /\ data.state = "SSTATE_SNK_RUN"

ViolationConsumed ==
    /\ Pass
    /\ data.request.msg_tx
    /\ data.tx_type = "TCPC_TX_SOP"
    /\ LET h == data.tx_msg.header
           mode == ModeAtConsume
       IN  \/ /\ mode \in Sessions
              /\ h.cnt = 0
              /\ h.type \in {"PD_CTRL_REJECT", "PD_CTRL_DR_SWAP",
                             "PD_CTRL_PR_SWAP", "PD_CTRL_VCONN_SWAP"}
           \/ /\ mode = "TESTMODE_SNK"
              /\ h.cnt = 0
              /\ h.type = "PD_CTRL_GET_SOURCE_CAP"
           \/ /\ mode = "TESTMODE_SRC"
              /\ h.cnt > 0
              /\ h.type = "PD_DATA_SOURCE_CAP"
           \/ /\ mode = "TESTMODE_SNK"
              /\ h.cnt > 0
              /\ h.type \in {"PD_DATA_REQUEST", "PD_DATA_SINK_CAP"}

\* the messages the step staged after the last time it wrote 0 to the counter
StagedSinceReset ==
    LET tr == data'.trace
        k == CHOOSE i \in 1..Len(tr) :
                 /\ tr[i].op = "reset"
                 /\ \A j \in (i + 1)..Len(tr) : tr[j].op # "reset"
    IN  Cardinality({i \in (k + 1)..Len(tr) : tr[i].op = "stage"})

\* C19: in the dispatcher pass that consumes Reject, DR_Swap, PR_Swap or
\* VCONN_Swap in either role, GetSourceCap in Sink mode, SourceCapabilities
\* in Source mode, or Request or SinkCapabilities in Sink mode, the
\* classifier clears the four pending-request flags, writes 0 to the
\* message-ID counter and issues exactly one hard-reset-from-peer: after
\* the pass no flag is set and the counter is 0, except for a message that
\* the state-machine step of the same pass staged after the reset.
C19_ViolationHardReset ==
    [][ViolationConsumed
       => /\ Count("tcpm_pd_hard_reset") = 1
          /\ Resets
          /\ ~data'.request.mode_set
          /\ ~data'.request.msg_tx
          /\ ~data'.request.vbus_chng
          /\ data'.request.msg_rx <=> StagedSinceReset > 0
          /\ data'.rx_id = StagedSinceReset
      ]_vars

\* C19: a PR_Swap consumed in Source mode has reset the peer while the
\* staged SourceCapabilities was waiting for its timer: the flag is clear
\* and the counter is 0 with the timer still pending
C19_Witness ==
    /\ pc = "idle"
    /\ Called("tcpm_pd_hard_reset")
    /\ data.tx_msg.header.type = "PD_CTRL_PR_SWAP"
    /\ data.sysfs.mode = "TESTMODE_SRC"
    /\ data.state = "SSTATE_SRC_WAIT_FOR_REQUEST"
    /\ data.request = NoRequest
    /\ data.rx_id = 0
    /\ data.timer

\* the pass is about to process a mode request of none or reset
NoneOrResetProcessed ==
    /\ Pass
    /\ data.request.mode_set
    /\ data.sysfs.mode_req \in {"TESTMODE_NONE", "TESTMODE_RESET"}

\* the pass issued the notification that matches the request, once, and not
\* the other one
MatchingNotification ==
    IF data.sysfs.mode_req = "TESTMODE_RESET"
    THEN Count("tcpm_tcpc_reset") = 1 /\ Count("tcpm_cc_change") = 0
    ELSE Count("tcpm_cc_change") = 1 /\ Count("tcpm_tcpc_reset") = 0

IgnoredModeRequest ==
    /\ Pass
    /\ data.request.mode_set
    /\ data.sysfs.mode_req \in Sessions
    /\ data.sysfs.mode \in Sessions

\* nothing but the mode request is latched, and SimState is one in which
\* the state-machine step of a pass does nothing
QuietPass ==
    /\ ~data.request.vbus_chng
    /\ ~data.request.msg_tx
    /\ \/ data.state \in {"SSTATE_SNK_RUN", "SSTATE_SRC_VBUS",
                          "SSTATE_SRC_WAIT_FOR_REQUEST", "SSTATE_SRC_RUN"}
       \/ data.state = "SSTATE_SRC_RX_SOURCE_CAP" /\ ~data.pd_rx_enable
       \/ data.state = "SSTATE_SRC_SEND_PS_RDY" /\ data.request.msg_rx

\* C21: a snk or src request processed while a session is active clears
\* ModeChangeRequested and changes nothing else: the pass ends as it would
\* have ended without the request, with the active mode unchanged; when
\* nothing else is pending the pass issues no callback and leaves every
\* other field as it was.  The ignored mode does not start later by itself:
\* the active mode leaves None only in a pass that finds a request latched,
\* for the mode requested then.
C21_IgnoredRequestDropped ==
    [][/\ IgnoredModeRequest
          => /\ ~data'.request.mode_set
             /\ data'.sysfs.mode = data.sysfs.mode
             /\ \E requeue \in BOOLEAN :
                    data' = tcpmtest_event_work(
                                [Fresh EXCEPT !.request.mode_set = FALSE],
                                requeue)
             /\ QuietPass
                   => /\ data'.port = <<>>
                      /\ [State(data') EXCEPT !.wq = data.wq, !.timer = data.timer]
                             = [State(data) EXCEPT !.request.mode_set = FALSE]
       /\ data.sysfs.mode = "TESTMODE_NONE" /\ data'.sysfs.mode \in Sessions
          => /\ Pass
             /\ data.request.mode_set
             /\ data'.sysfs.mode = data.sysfs.mode_req
      ]_vars

\* C21: a request of snk was processed and dropped in a source session that
\* waits for a Request
C21_Witness ==
    /\ pc = "idle"
    /\ data.wq = <<>>
    /\ data.sysfs.mode = "TESTMODE_SRC"
    /\ data.sysfs.mode_req = "TESTMODE_SNK"
    /\ ~data.request.mode_set
    /\ data.state = "SSTATE_SRC_WAIT_FOR_REQUEST"
    /\ data.port = <<>>

\* C22: the dispatcher issues exactly one vbus-changed notification for a
\* latched VBUS change and clears the flag in the same pass; no step issues
\* the notification while the flag is clear; and no step, be it a hard
\* reset, a session end or the timer callback, clears a set VbusChanged
\* flag without issuing the notification.
C22_VbusChangeNotified ==
    [][/\ Pass /\ data.request.vbus_chng
              => Count("tcpm_vbus_change") = 1 /\ ~data'.request.vbus_chng
       /\ Count("tcpm_vbus_change") > 0
              => Pass /\ data.request.vbus_chng
       /\ data.request.vbus_chng /\ ~data'.request.vbus_chng
              => Count("tcpm_vbus_change") = 1
      ]_vars

\* C23: a dispatcher pass that consumes MessageToProcess issues exactly one
\* transmit-complete: Success when the active mode, as the pass has it when
\* it reaches the message, is Sink or Source, whatever the message, and
\* Failure when it is None; Discarded is never reported, and a step that
\* does not consume MessageToProcess issues no transmit-complete.
C23_TransmitStatus ==
    [][LET ok == Count("tcpm_pd_transmit_complete(TCPC_TX_SUCCESS)")
           failed == Count("tcpm_pd_transmit_complete(TCPC_TX_FAILED)")
           discarded == Count("tcpm_pd_transmit_complete(TCPC_TX_DISCARDED)")
       IN  /\ discarded = 0
           /\ IF Pass /\ data.request.msg_tx
              THEN IF ModeAtConsume \in Sessions
                   THEN ok = 1 /\ failed = 0
                   ELSE ok = 0 /\ failed = 1 /\ ModeAtConsume = "TESTMODE_NONE"
              ELSE ok = 0 /\ failed = 0
      ]_vars

\* C23: a Request transmitted with no session active was consumed and
\* reported as failed
C23_Witness ==
    /\ pc = "idle"
    /\ data.port = <<"tcpm_pd_transmit_complete(TCPC_TX_FAILED)">>
    /\ data.sysfs.mode = "TESTMODE_NONE"
    /\ data.tx_type = "TCPC_TX_SOP"
    /\ data.tx_msg.header.type = "PD_DATA_REQUEST"
    /\ ~data.request.msg_tx

\* the step is the last step of the timer callback
CallbackEnd == pc = "tmo_sm" /\ pc' = "idle"

\* C24: whenever MessageToDeliver is set at the end of a dispatcher pass or
\* at the end of a timer callback, the delayed-completion timer is armed.
C24_StagedReplyHasTimer ==
    [][(Pass \/ CallbackEnd) /\ data'.request.msg_rx => data'.timer]_vars

\* the pass is about to consume a SOP control message of one of the types
\* in a session of one of the modes
ConsumesCtrl(types, modes) ==
    /\ Pass
    /\ data.request.msg_tx
    /\ data.tx_type = "TCPC_TX_SOP"
    /\ data.tx_msg.header.cnt = 0
    /\ data.tx_msg.header.type \in types
    /\ ModeAtConsume \in modes

\* the transmitted message caused nothing but transmit-complete(Success):
\* the pass ends as it would have ended with MessageToProcess clear, and its
\* callbacks are those of that pass with the one transmit-complete added
NoReaction ==
    LET ok == "tcpm_pd_transmit_complete(TCPC_TX_SUCCESS)"
    IN  /\ Count(ok) = 1
        /\ Count("tcpm_pd_hard_reset") = 0
        /\ \E requeue \in BOOLEAN :
               LET q == tcpmtest_event_work(
                            [Fresh EXCEPT !.request.msg_tx = FALSE], requeue)
               IN  /\ State(data') = State(q)
                   /\ data'.trace = q.trace
                   /\ SelectSeq(data'.port, LAMBDA fn : fn # ok) = q.port

AbsorbedTypes ==
    {"PD_CTRL_ACCEPT", "PD_CTRL_GOOD_CRC", "PD_CTRL_GOTO_MIN", "PD_CTRL_PING",
     "PD_CTRL_PS_RDY"}

\* C25 as stated: in Sink mode and in Source mode alike, a SOP control
\* message of type Accept, GoodCRC, GotoMin, Ping or PowerReady causes no
\* reaction: nothing is staged, no hard reset is issued, SimState, the
\* counter and the other flags are as without the message, and only
\* transmit-complete(Success) is reported.
C25_AbsorbedInBothModes ==
    [][ConsumesCtrl(AbsorbedTypes, Sessions) => NoReaction]_vars

\* C25, amended: GoodCRC, GotoMin, Ping and PowerReady cause no reaction in
\* either mode and Accept causes none in Sink mode; Accept consumed in
\* Source mode makes the classifier issue one hard-reset-from-peer, clear
\* the flags and write 0 to the counter.
C25_AbsorbedExceptSourceAccept ==
    [][/\ ConsumesCtrl(AbsorbedTypes \ {"PD_CTRL_ACCEPT"}, Sessions)
              => NoReaction
       /\ ConsumesCtrl({"PD_CTRL_ACCEPT"}, {"TESTMODE_SNK"}) => NoReaction
       /\ ConsumesCtrl({"PD_CTRL_ACCEPT"}, {"TESTMODE_SRC"})
              => /\ Count("tcpm_pd_hard_reset") = 1
                 /\ Count("tcpm_pd_transmit_complete(TCPC_TX_SUCCESS)") = 1
                 /\ Resets
                 /\ data'.rx_id = StagedSinceReset
                 /\ data'.request.msg_rx <=> StagedSinceReset > 0
      ]_vars

\* C25: PowerReady was absorbed in a source session that had
\* SourceCapabilities staged and undelivered
C25_Witness ==
    /\ pc = "idle"
    /\ data.port = <<"tcpm_pd_transmit_complete(TCPC_TX_SUCCESS)">>
    /\ data.tx_msg.header.type = "PD_CTRL_PS_RDY"
    /\ data.sysfs.mode = "TESTMODE_SRC"
    /\ data.state = "SSTATE_SRC_WAIT_FOR_REQUEST"
    /\ data.request.msg_rx
    /\ data.rx_id = 1

\* C26: a SoftReset control message consumed in Sink or Source mode writes
\* 0 to the message-ID counter and changes nothing else, and issues no
\* hard-reset-from-peer: the pass ends as the same pass would have ended
\* with MessageToProcess clear and the counter at 0, with the one
\* transmit-complete(Success) added; unless the pass also processes a mode
\* request or its state-machine step stages a message, the counter is 0 afterwards
\* and SimState, the active mode, the CC/VBUS snapshot, the staged message
\* and MessageToDeliver are what they were.
C26_SoftResetFrame ==
    [][ConsumesCtrl({"PD_CTRL_SOFT_RESET"}, Sessions)
       => LET ok == "tcpm_pd_transmit_complete(TCPC_TX_SUCCESS)"
          IN  /\ Count("tcpm_pd_hard_reset") = 0
              /\ Count(ok) = 1
              /\ Resets
              /\ data'.rx_id = StagedSinceReset
              /\ \E requeue \in BOOLEAN :
                     LET q == tcpmtest_event_work(
                                  [Fresh EXCEPT !.request.msg_tx = FALSE,
                                                !.rx_id = 0], requeue)
                     IN  /\ State(data') = State(q)
                         /\ SelectSeq(data'.port, LAMBDA fn : fn # ok) = q.port
              /\ (~data.request.mode_set /\ Staged = 0)
                     => /\ data'.rx_id = 0
                        /\ data'.rx_msg = data.rx_msg
                        /\ data'.request.msg_rx = data.request.msg_rx
                        /\ data'.state = data.state
                        /\ data'.sysfs.mode = data.sysfs.mode
                        /\ data'.cc1_status = data.cc1_status
                        /\ data'.cc2_status = data.cc2_status
                        /\ data'.vbus_present = data.vbus_present
      ]_vars

\* C26: a SoftReset was consumed in Source mode while SourceCapabilities was
\* staged and undelivered: the message is still staged, the counter is 0
C26_Witness ==
    /\ pc = "idle"
    /\ data.port = <<"tcpm_pd_transmit_complete(TCPC_TX_SUCCESS)">>
    /\ data.tx_msg.header.type = "PD_CTRL_SOFT_RESET"
    /\ data.sysfs.mode = "TESTMODE_SRC"
    /\ data.state = "SSTATE_SRC_WAIT_FOR_REQUEST"
    /\ data.request.msg_rx
    /\ data.rx_msg.header.type = "PD_DATA_SOURCE_CAP"
    /\ data.rx_id = 0

\* the SinkCapabilities of the simulated sink: one fixed PDO, 5 V, 2 A, with
\* the USB-communications flag and no other, sent as power role Sink and
\* data role Device
IsSinkCap(m) ==
    /\ m.header.type = "PD_DATA_SINK_CAP"
    /\ m.header.cnt = 1
    /\ m.header.pwr = "TYPEC_SINK"
    /\ m.header.drole = "TYPEC_DEVICE"
    /\ pdo_decode(m.payload[0]) =
           [type |-> 0, drp |-> FALSE, ss |-> FALSE, ep |-> FALSE, cc |-> TRUE,
            drd |-> FALSE, volt |-> 5000, curr |-> 2000]

\* C27: a dispatcher pass that consumes a GetSinkCap control message in
\* Sink mode (and does not end the session) issues no hard reset and stages
\* exactly one message, the SinkCapabilities of the simulated sink, whose
\* message ID is the counter value before the pass, and advances the
\* counter by one and arms the response timer; a staged SinkCapabilities
\* always has its delivery pending, and the timer callback hands it to the
\* port manager unchanged.
C27_GetSinkCapReply ==
    [][/\ (ConsumesCtrl({"PD_CTRL_GET_SINK_CAP"}, {"TESTMODE_SNK"})
           /\ ~EndsSession)
          => /\ Count("tcpm_pd_hard_reset") = 0
             /\ Staged = 1
             /\ IsSinkCap(data'.rx_msg)
             /\ data'.rx_msg.header.id = data.rx_id % 8
             /\ data'.rx_id = data.rx_id + 1
             /\ data'.request.msg_rx
             /\ data'.timer
       /\ (data'.request.msg_rx /\ IsSinkCap(data'.rx_msg))
          => DeliveryPending'
       /\ (Delivery /\ IsSinkCap(data.rx_msg))
          => /\ Count("tcpm_pd_receive") = 1
             /\ data'.rx_msg = data.rx_msg
             /\ ~data'.request.msg_rx
      ]_vars

\* C27: the timer callback has handed the SinkCapabilities, with message ID
\* 1, to the port manager
C27_Witness ==
    /\ Called("tcpm_pd_receive")
    /\ IsSinkCap(data.rx_msg)
    /\ data.rx_msg.header.id = 1
    /\ data.tx_msg.header.type = "PD_CTRL_GET_SINK_CAP"
    /\ data.sysfs.mode = "TESTMODE_SNK"
    /\ ~data.request.msg_rx

\* the pass is about to consume a Vendor-Defined data message in the mode
VdmConsumed(mode) ==
    /\ Consumes("PD_DATA_VENDOR_DEF")
    /\ data.tx_msg.header.cnt > 0
    /\ ModeAtConsume = mode

\* the VDM header asks for a reply: structured, command type Initiator,
\* and DiscoverIdentity, DiscoverSVID, or DiscoverModes for DisplayPort
AsksReply(hdr) ==
    /\ (hdr \div 32768) % 2 = 1
    /\ (hdr \div 64) % 4 = 0
    /\ \/ hdr % 32 \in {1, 2}
       \/ hdr % 32 = 3 /\ (hdr \div 65536) % 65536 = 65281

\* C28: in Sink mode a Vendor-Defined data message stages a reply if and
\* only if its header is structured, of command type Initiator, and its
\* command is DiscoverIdentity, DiscoverSVID or DiscoverModes with the
\* DisplayPort SVID: then one Vendor-Defined message is staged, an ACK of
\* the same command, and the counter advances by one; any other VDM stages
\* nothing and leaves the counter, the staged message and MessageToDeliver
\* as they were.  In Source mode a VDM causes nothing: the pass ends as it
\* would have ended without it, apart from transmit-complete.
C28_VdmFilter ==
    [][/\ VdmConsumed("TESTMODE_SNK")
          => LET hdr == data.tx_msg.payload[0]
             IN  IF AsksReply(hdr)
                 THEN /\ Staged = 1
                      /\ data'.rx_id = data.rx_id + 1
                      /\ data'.request.msg_rx
                      /\ data'.rx_msg.header.type = "PD_DATA_VENDOR_DEF"
                      /\ data'.rx_msg.header.id = data.rx_id % 8
                      /\ data'.rx_msg.payload[0] % 32 = hdr % 32
                      /\ (data'.rx_msg.payload[0] \div 64) % 4 = 1
                      /\ Count("tcpm_pd_hard_reset") = 0
                 ELSE /\ Staged = 0
                      /\ data'.rx_id = data.rx_id
                      /\ data'.rx_msg = data.rx_msg
                      /\ data'.request.msg_rx = data.request.msg_rx
                      /\ Count("tcpm_pd_hard_reset") = 0
       /\ VdmConsumed("TESTMODE_SRC") => NoReaction
      ]_vars

\* C28: the sink has staged its DiscoverModes reply for DisplayPort
C28_Witness ==
    /\ pc = "idle"
    /\ data.sysfs.mode = "TESTMODE_SNK"
    /\ data.request.msg_rx
    /\ data.rx_msg.header.type = "PD_DATA_VENDOR_DEF"
    /\ data.rx_msg.header.cnt = 2
    /\ (data.rx_msg.payload[0] \div 65536) % 65536 = 65281
    /\ data.rx_msg.payload[0] % 65536 = 32768 + 64 + 3
    /\ (data.tx_msg.payload[0] \div 65536) % 65536 = 65281
    /\ data.tx_msg.payload[0] % 65536 = 32768 + 3


\* C29: the dispatcher pass that consumes a transmit of type HardReset in
\* Sink or Source mode, in any state, writes 0 to the message-ID counter,
\* clears the four pending-request flags, so that a message staged before
\* is dropped, and issues no hard-reset-from-peer: after the pass no flag
\* is set and the counter is 0, except for a message that the
\* state-machine step of the same pass staged after the reset, which
\* carries the ID 0; the transmit completes with success.
C29_HardResetTransmit ==
    [][HardResetTransmit
       => /\ Resets
          /\ Count("tcpm_pd_hard_reset") = 0
          /\ Count("tcpm_pd_transmit_complete(TCPC_TX_SUCCESS)") = 1
          /\ ~data'.request.mode_set
          /\ ~data'.request.msg_tx
          /\ ~data'.request.vbus_chng
          /\ data'.request.msg_rx <=> StagedSinceReset > 0
          /\ data'.rx_id = StagedSinceReset
          /\ StagedSinceReset > 0 => data'.rx_msg.header.id = 0
          /\ StagedSinceReset = 0 /\ ~data.request.mode_set
                => data'.rx_msg = data.rx_msg
      ]_vars

\* C29: a HardReset transmit consumed in Source mode has dropped the
\* staged SourceCapabilities: the flag is clear, the counter is 0 and the
\* port manager was not told of a hard reset
C29_Witness ==
    /\ pc = "idle"
    /\ data.tx_type = "TCPC_TX_HARD_RESET"
    /\ Called("tcpm_pd_transmit_complete(TCPC_TX_SUCCESS)")
    /\ ~Called("tcpm_pd_hard_reset")
    /\ data.sysfs.mode = "TESTMODE_SRC"
    /\ data.state = "SSTATE_SRC_WAIT_FOR_REQUEST"
    /\ data.rx_msg.header.type = "PD_DATA_SOURCE_CAP"
    /\ data.request = NoRequest
    /\ data.rx_id = 0


\* the dispatcher pass whose state-machine step runs the SSTATE_TO_NONE
\* case: the state it reaches after the three request blocks
PerformsToNone ==
    /\ Pass
    /\ event_msg_tx(event_vbus_chng(event_mode_set(data))).state
           = "SSTATE_TO_NONE"

\* C30: at the end of the dispatcher pass that performs TransitionToIdle,
\* SimState is Idle, the active mode is None, VBUS is absent, both CC lines
\* are open, the message-ID counter is 0 and the four pending-request flags
\* are clear: a message staged, and a request latched, earlier in the pass
\* is dropped, and the pass arms no timer.
C30_SessionEnd ==
    [][PerformsToNone
       => /\ data'.state = "SSTATE_NONE"
          /\ data'.sysfs.mode = "TESTMODE_NONE"
          /\ ~data'.vbus_present
          /\ data'.cc1_status = "TYPEC_CC_OPEN"
          /\ data'.cc2_status = "TYPEC_CC_OPEN"
          /\ data'.rx_id = 0
          /\ data'.request = NoRequest
          /\ Resets /\ StagedSinceReset = 0
          /\ data'.timer = data.timer
      ]_vars

\* C30: a session ended in the pass that had staged a reply to the
\* message consumed in it
C30_Witness ==
    /\ pc = "idle"
    /\ data.state = "SSTATE_NONE"
    /\ data.sysfs.mode = "TESTMODE_NONE"
    /\ Called("tcpm_pd_transmit_complete(TCPC_TX_SUCCESS)")
    /\ \E i \in 1..Len(data.trace) : data.trace[i].op = "stage"
    /\ data.request = NoRequest
    /\ data.rx_id = 0


\* C31: the dispatcher pass that processes a snk request from Idle sets CC1
\* to Rd and CC2 to Ra, clears VBUS-present, issues exactly one cc-changed
\* notification and ends in SinkRunning; no step takes SimState out of
\* SinkRunning but a dispatcher pass that processes a none or reset
\* request, and that pass ends in Idle.
C31_SinkPath ==
    [][/\ (/\ Pass
           /\ data.request.mode_set
           /\ data.sysfs.mode_req = "TESTMODE_SNK"
           /\ data.sysfs.mode = "TESTMODE_NONE")
          => /\ data'.cc1_status = "TYPEC_CC_RD"
             /\ data'.cc2_status = "TYPEC_CC_RA"
             /\ ~data'.vbus_present
             /\ Count("tcpm_cc_change") = 1
             /\ data'.state = "SSTATE_SNK_RUN"
             /\ data'.sysfs.mode = "TESTMODE_SNK"
       /\ (data.state = "SSTATE_SNK_RUN" /\ data'.state # "SSTATE_SNK_RUN")
          => /\ Pass
             /\ EndsSession
             /\ data'.state = "SSTATE_NONE"
      ]_vars

\* C31: a sink session has started in a pass that also reported the VBUS
\* change latched before it, and left VBUS absent
C31_Witness ==
    /\ pc = "idle"
    /\ data.state = "SSTATE_SNK_RUN"
    /\ data.cc1_status = "TYPEC_CC_RD"
    /\ data.cc2_status = "TYPEC_CC_RA"
    /\ Called("tcpm_cc_change")
    /\ Called("tcpm_vbus_change")
    /\ ~data.vbus_present


\* the state in which the state-machine step of the pass runs
StateAtStep == event_msg_tx(event_vbus_chng(event_mode_set(data))).state

\* a step of the worker (not a facade call, not the expiry itself) that
\* latches VbusChanged
EngineLatchesVbus ==
    /\ pc' # pc
    /\ \E i \in 1..Len(data'.trace) : data'.trace[i].op = "vbus_chng"

\* C32: the dispatcher pass that processes a src request from Idle sets CC1
\* to Open and CC2 to Rp-3.0A, issues one cc-changed notification, arms the
\* timer and ends in SourceVbusWait.  The worker sets VBUS-present, and
\* latches VbusChanged, only in the state-machine step of a timer callback
\* that finds SourceVbusWait, and that step does both and moves to
\* SourceAwaitSourceCapSend; a dispatcher pass whose state-machine step
\* finds SourceVbusWait leaves the state and VBUS-present as they were.
C32_SourceAttach ==
    [][/\ (/\ Pass
           /\ data.request.mode_set
           /\ data.sysfs.mode_req = "TESTMODE_SRC"
           /\ data.sysfs.mode = "TESTMODE_NONE")
          => /\ data'.cc1_status = "TYPEC_CC_OPEN"
             /\ data'.cc2_status = "TYPEC_CC_RP_3_0"
             /\ Count("tcpm_cc_change") = 1
             /\ data'.timer
             /\ data'.delay = 5
             /\ data'.state = "SSTATE_SRC_VBUS"
             /\ data'.sysfs.mode = "TESTMODE_SRC"
       /\ (\/ pc' # pc /\ data'.vbus_present /\ ~data.vbus_present
           \/ EngineLatchesVbus)
          => /\ CallbackEnd
             /\ data.state = "SSTATE_SRC_VBUS"
       /\ (CallbackEnd /\ data.state = "SSTATE_SRC_VBUS")
          => /\ data'.vbus_present
             /\ data'.request.vbus_chng
             /\ data'.state = "SSTATE_SRC_RX_SOURCE_CAP"
       /\ (Pass /\ StateAtStep = "SSTATE_SRC_VBUS")
          => /\ data'.state = "SSTATE_SRC_VBUS"
             /\ data'.vbus_present = data.vbus_present
      ]_vars

\* C32: the timer callback has found SourceVbusWait and asserted VBUS
C32_Witness ==
    /\ pc = "idle"
    /\ data.state = "SSTATE_SRC_RX_SOURCE_CAP"
    /\ data.cc2_status = "TYPEC_CC_RP_3_0"
    /\ data.vbus_present
    /\ data.request.vbus_chng
    /\ \E i \in 1..Len(data.trace) : data.trace[i].op = "vbus_chng"
    /\ data.delay = 0


\* the step stages PowerReady from SourceSendPowerReady
StagesPsRdy ==
    /\ data.state = "SSTATE_SRC_SEND_PS_RDY"
    /\ data'.state = "SSTATE_SRC_RUN"

\* C33: every step that stages PowerReady from SourceSendPowerReady comes
\* after tcpm_pd_receive has handed the Accept of the same negotiation to
\* the port manager.
C33_PsRdyAfterAcceptDelivered ==
    [][StagesPsRdy
       => /\ lastcall.fn = "accept"
          /\ lastcall.staged
          /\ lastcall.delivered
      ]_vars


\* a Request data message consumed in Source mode
RequestConsumedSrc ==
    /\ Consumes("PD_DATA_REQUEST")
    /\ data.tx_msg.header.cnt > 0
    /\ ModeAtConsume = "TESTMODE_SRC"

\* C34: in the dispatcher pass that consumes a Request in Source mode the
\* classifier stages nothing and resets nothing.  If the pass finds
\* SourceAwaitRequest, SimState goes to SourceSendRequestAccept: the
\* state-machine step of the pass stages the one Accept and ends in
\* SourceSendPowerReady.  In every other state the pass ends as it would
\* have ended without the message, apart from transmit-complete, and no
\* Accept is staged.
C34_SourceRequest ==
    [][RequestConsumedSrc
       => /\ Count("tcpm_pd_hard_reset") = 0
          /\ Count("tcpm_pd_transmit_complete(TCPC_TX_SUCCESS)") = 1
          /\ IF event_mode_set(data).state = "SSTATE_SRC_WAIT_FOR_REQUEST"
             THEN /\ Staged = 1
                  /\ ~Resets
                  /\ data'.rx_msg.header.type = "PD_CTRL_ACCEPT"
                  /\ data'.rx_msg.header.id = data.rx_id % 8
                  /\ data'.state = "SSTATE_SRC_SEND_PS_RDY"
             ELSE /\ NoReaction
                  /\ Staged > 0 => data'.rx_msg.header.type # "PD_CTRL_ACCEPT"
                  /\ data'.state # "SSTATE_SRC_SEND_REQUEST"
      ]_vars

\* C34: a Request consumed in SourceRunning has changed nothing
C34_Witness ==
    /\ pc = "idle"
    /\ data.sysfs.mode = "TESTMODE_SRC"
    /\ data.state = "SSTATE_SRC_RUN"
    /\ data.tx_type = "TCPC_TX_SOP"
    /\ data.tx_msg.header.type = "PD_DATA_REQUEST"
    /\ Called("tcpm_pd_transmit_complete(TCPC_TX_SUCCESS)")
    /\ data.trace = <<>>
    /\ data.rx_msg.header.type = "PD_CTRL_PS_RDY"


\* the states a source session rests in between passes
SourceStates ==
    {"SSTATE_SRC_VBUS", "SSTATE_SRC_RX_SOURCE_CAP", "SSTATE_SRC_WAIT_FOR_REQUEST",
     "SSTATE_SRC_SEND_PS_RDY", "SSTATE_SRC_RUN"}

\* the states a dispatcher pass enters and leaves again
TransientStates ==
    {"SSTATE_SNK_START", "SSTATE_SRC_START", "SSTATE_SRC_SEND_REQUEST",
     "SSTATE_TO_NONE"}

\* C35: between the steps of the worker and the facade calls, the active
\* mode is None exactly when SimState is Idle, Sink exactly when it is
\* SinkRunning, Source exactly when it is one of the resting source states;
\* SinkAttachStart, SourceAttachStart, SourceSendRequestAccept and
\* TransitionToIdle are never seen.
C35_ModeStateConsistent ==
    /\ data.sysfs.mode \in {"TESTMODE_NONE", "TESTMODE_SNK", "TESTMODE_SRC"}
    /\ data.sysfs.mode = "TESTMODE_NONE" <=> data.state = "SSTATE_NONE"
    /\ data.sysfs.mode = "TESTMODE_SNK" <=> data.state = "SSTATE_SNK_RUN"
    /\ data.sysfs.mode = "TESTMODE_SRC" <=> data.state \in SourceStates
    /\ data.state \notin TransientStates

\* C35: a source session rests in SourceSendPowerReady with the Accept
\* staged while a reset request is latched
C35_Witness ==
    /\ pc = "idle"
    /\ data.request.mode_set
    /\ data.sysfs.mode_req = "TESTMODE_RESET"
    /\ data.sysfs.mode = "TESTMODE_SRC"
    /\ data.state = "SSTATE_SRC_SEND_PS_RDY"
    /\ data.rx_msg.header.type = "PD_CTRL_ACCEPT"


\* a synthesis in the step's history found a staged message that had not
\* been delivered: pending is MessageToDeliver as the history goes along
RECURSIVE Overwritten(_, _)
Overwritten(pending, tr) ==
    IF tr = <<>> THEN FALSE
    ELSE CASE Head(tr).op = "stage" -> pending \/ Overwritten(TRUE, Tail(tr))
           [] Head(tr).op = "reset" -> Overwritten(FALSE, Tail(tr))
           [] OTHER -> Overwritten(pending, Tail(tr))

\* C36: no step synthesizes a message over a staged message that has not
\* been delivered and has not been dropped by a reset.
C36_NoLostReply ==
    [][~Overwritten(data.request.msg_rx, data'.trace)]_vars


\* C37: every transmit call gets its own transmit-complete: while a call
\* has had none, MessageToProcess is set, so that a dispatcher pass is
\* still to issue it; and no pass issues more completions than calls are
\* open.
C37_OneCompletionPerTransmit ==
    /\ lastcall.fn = "tx" /\ lastcall.pending > 0 => data.request.msg_tx
    /\ lastcall.fn = "tx" /\ lastcall.pending = 0 => ~data.request.msg_tx


\* C38: in a Source session in which the port manager never calls
\* set_vbus, so that VbusChanged is latched by the state machine alone, a
\* latched VbusChanged is never left with nothing to run: the worker is
\* busy, or work is queued, or the timer is armed.  From a state where none
\* of these holds no vbus-changed notification follows without a further
\* facade call.
C38_VbusNotificationPending ==
    (data.sysfs.mode = "TESTMODE_SRC" /\ data.request.vbus_chng) => ~Quiescent


\* C39: every index tcpmtest_log_msg uses on the PDO-type cache, for a
\* capability message of 1 to 7 objects and for a Request of any object
\* position 0..7, lies within 0..6.
C39_CacheIndexInBounds ==
    lastcall.fn = "log"
        => \A i \in 1..Len(lastcall.used) :
               lastcall.used[i] \in 0..(PDO_MAX_OBJECTS - 1)


\* C40: nothing is delivered outside a session. A step taken while the
\* active mode is None (for a dispatcher pass: the mode once the pass has
\* consumed the mode request) issues no tcpm_pd_receive and stages no
\* message, whatever call or timer expiry led to it; no message is pending
\* delivery when a step ends in mode None; and tcpm_pd_receive hands over a
\* message only in the session in which it was staged.
C40_NoDeliveryOutsideSession ==
    [][/\ (IF Pass THEN ModeAtConsume ELSE data.sysfs.mode) = "TESTMODE_NONE"
              => Count("tcpm_pd_receive") = 0 /\ Staged = 0
       /\ data'.sysfs.mode = "TESTMODE_NONE" => ~data'.request.msg_rx
       /\ Count("tcpm_pd_receive") > 0
              => /\ data.sysfs.mode \in Sessions
                 /\ lastcall.fn = "sess"
                 /\ lastcall.stagedIn = lastcall.session]_vars

\* the timer callback runs in mode None after a second session in which a
\* message was staged, and has passed its delivery test
C40_Witness ==
    /\ lastcall.fn = "sess"
    /\ lastcall.session = 2
    /\ lastcall.stagedIn = 2
    /\ data.sysfs.mode = "TESTMODE_NONE"
    /\ pc = "tmo_sm_load"

====
